---- MODULE Spec2Model ----
(***************************************************************************)
(* A model of CCScriptWriter (src/CCScriptWriter/CCScriptWriter.py): the   *)
(* block decoder getText, the length rules getLength, the address helpers  *)
(* ToSNES / FromSNES, the resolver and page assignment of loadDialogue and *)
(* the label pass of processDialogue.                                      *)
(*                                                                         *)
(* Representation.                                                         *)
(*  - The image self.data is a sequence of bytes; offset i of the code is  *)
(*    data[i + 1].                                                         *)
(*  - Python integers are unbounded and addresses reach 0xFFFFFFFF, which  *)
(*    the checker's integers cannot hold.  An address is therefore the     *)
(*    pair <<hi, lo>> of its two 16-bit halves (value hi * 65536 + lo);    *)
(*    the order of addresses is the order of these pairs.                  *)
(*  - A string of the code is a sequence of one-character strings where    *)
(*    its characters matter (ToSNES, FromSNES, FormatHex).  The text of a  *)
(*    block is the sequence of the pieces getText appends to it, each a    *)
(*    record [k, b]: k = "op" for "[XX YY ..]" (b the bytes), "ch" for a   *)
(*    character chr(c - 0x30) (b = <<c - 0x30>>), and further kinds for    *)
(*    the coffee and staff variants.  In a Normal block the characters     *)
(*    '[', ']', '\' and '"' are never produced by chr (bytes 0x8B, 0x8D,   *)
(*    0x8C, 0x52 are formatted as "[XX]"), so every bracketed group of the *)
(*    string is exactly one "op" piece.                                    *)
(*  - An exception of the code is the err field of a result: "IndexError", *)
(*    "KeyError", "ValueError", "AssertionError"; "ok" otherwise.          *)
(***************************************************************************)
EXTENDS Integers, Sequences, FiniteSets, TLC

(***************************************************************************)
(* Generic helpers on sequences.                                           *)
(***************************************************************************)
Reverse(s) == [k \in 1..Len(s) |-> s[Len(s) + 1 - k]]

RECURSIVE Flatten(_)
Flatten(ss) == IF ss = <<>> THEN <<>> ELSE Head(ss) \o Flatten(Tail(ss))

Range(s) == {s[k] : k \in 1..Len(s)}

(***************************************************************************)
(* Hexadecimal text.                                                       *)
(***************************************************************************)
HexUpper == <<"0","1","2","3","4","5","6","7","8","9","A","B","C","D","E","F">>
HexLower == <<"0","1","2","3","4","5","6","7","8","9","a","b","c","d","e","f">>

\* '{:02X}'.format(intNum) for a byte
FormatHex(intNum) == <<HexUpper[(intNum \div 16) + 1], HexUpper[(intNum % 16) + 1]>>

\* '{:04X}' of a 16-bit half
Format04X(h) ==
  <<HexUpper[(h \div 4096) + 1], HexUpper[((h \div 256) % 16) + 1],
    HexUpper[((h \div 16) % 16) + 1], HexUpper[(h % 16) + 1]>>

\* "{:08X}".format(hexNum) of an address <<hi, lo>>
Format08X(hexNum) == Format04X(hexNum[1]) \o Format04X(hexNum[2])

\* re.findall(r"\w\w", s) on a string of word characters
FindAllPairs(s) == [k \in 1..(Len(s) \div 2) |-> SubSeq(s, 2 * k - 1, 2 * k)]

\* " ".join(parts)
RECURSIVE JoinSpace(_)
JoinSpace(parts) ==
  IF parts = <<>> THEN <<>>
  ELSE IF Len(parts) = 1 THEN parts[1]
  ELSE parts[1] \o <<" ">> \o JoinSpace(Tail(parts))

\* a variant that forgets the reversal (big-endian output)
ToSNES_NoReverse(hexNum) ==
  IF hexNum = <<0, 0>> THEN <<"0","0"," ","0","0"," ","0","0"," ","0","0">>
  ELSE JoinSpace(FindAllPairs(Format08X(hexNum)))

\* ToSNES: an address to its SNES text
ToSNES(hexNum) ==
  IF hexNum = <<0, 0>> THEN <<"0","0"," ","0","0"," ","0","0"," ","0","0">>
  ELSE JoinSpace(Reverse(FindAllPairs(Format08X(hexNum))))

\* str.split(): the maximal runs of non-blank characters (this also strips)
RECURSIVE SplitBlank(_, _)
SplitBlank(s, cur) ==
  IF s = <<>> THEN (IF cur = <<>> THEN <<>> ELSE <<cur>>)
  ELSE IF Head(s) = " "
       THEN (IF cur = <<>> THEN <<>> ELSE <<cur>>) \o SplitBlank(Tail(s), <<>>)
       ELSE SplitBlank(Tail(s), Append(cur, Head(s)))

\* the value of one hexadecimal digit, either case
HexDigitValue(ch) ==
  IF \E d \in 1..16 : HexUpper[d] = ch
  THEN (CHOOSE d \in 1..16 : HexUpper[d] = ch) - 1
  ELSE (CHOOSE d \in 1..16 : HexLower[d] = ch) - 1

RECURSIVE HexValue(_)
HexValue(digits) ==
  IF digits = <<>> THEN 0
  ELSE 16 * HexValue(SubSeq(digits, 1, Len(digits) - 1)) + HexDigitValue(digits[Len(digits)])

\* int(digits, 16) for at most eight digits, as an address <<hi, lo>>
IntBase16(digits) ==
  LET n == Len(digits) IN
  IF n <= 4 THEN <<0, HexValue(digits)>>
  ELSE <<HexValue(SubSeq(digits, 1, n - 4)), HexValue(SubSeq(digits, n - 3, n))>>

\* FromSNES: SNES text to an address
FromSNES(snesNum) == IntBase16(Flatten(Reverse(SplitBlank(snesNum, <<>>))))

\* the text " XX XX XX XX" that loadDialogue and getText build from bytes
RECURSIVE HexText(_)
HexText(bytes) ==
  IF bytes = <<>> THEN <<>> ELSE <<" ">> \o FormatHex(Head(bytes)) \o HexText(Tail(bytes))

\* FromSNES applied to the hex text of four bytes: b3<<24 | b2<<16 | b1<<8 | b0
AddressOfBytes(b) == <<b[4] * 256 + b[3], b[2] * 256 + b[1]>>

\* the four bytes whose hex text ToSNES(address) is
BytesOfAddress(a) == <<a[2] % 256, a[2] \div 256, a[1] % 256, a[1] \div 256>>

\* the order of addresses
AddrLess(a, b) == a[1] < b[1] \/ (a[1] = b[1] /\ a[2] < b[2])
AddrLeq(a, b) == a = b \/ AddrLess(a, b)

Zero == <<0, 0>>

(***************************************************************************)
(* The opcode tables.                                                      *)
(***************************************************************************)
None == -1

\* CONTROL_CODES: the entry of opcode c is CONTROL_CODES[c + 1]
CONTROL_CODES ==
  <<0, 0, 0, 0, 2, 2, 6, 2, 4, None, 4, 1, 1, 1, 1, 0,
    1, 0, 0, 0, 0, 1, 1, 1, None, None, None, None, None, None, None, None,
    0, 0, 0, 0, 0, 0, 0, 0, 0, 0, 0, 0, 0, 0, 0, 0, 0>>

Combos1F ==
  (0 :> 3) @@ (1 :> 2) @@ (2 :> 2) @@ (3 :> 1) @@ (4 :> 2) @@ (5 :> 1) @@
  (6 :> 1) @@ (7 :> 2) @@ (17 :> 2) @@ (18 :> 2) @@ (19 :> 3) @@ (20 :> 2) @@
  (21 :> 6) @@ (22 :> 4) @@ (23 :> 6) @@ (24 :> 8) @@ (25 :> 8) @@ (26 :> 4) @@
  (27 :> 3) @@ (28 :> 3) @@ (29 :> 2) @@ (30 :> 4) @@ (31 :> 4) @@ (32 :> 3) @@
  (33 :> 2) @@ (35 :> 3) @@ (48 :> 1) @@ (49 :> 1) @@ (65 :> 2) @@ (80 :> 1) @@
  (81 :> 1) @@ (82 :> 2) @@ (96 :> 2) @@ (97 :> 1) @@ (98 :> 2) @@ (99 :> 5) @@
  (100 :> 1) @@ (101 :> 1) @@ (102 :> 7) @@ (103 :> 2) @@ (104 :> 1) @@ (105 :> 1) @@
  (113 :> 3) @@ (129 :> 3) @@ (131 :> 3) @@ (144 :> 1) @@ (160 :> 1) @@ (161 :> 1) @@
  (162 :> 1) @@ (176 :> 1) @@ (192 :> None) @@ (208 :> 2) @@ (209 :> 1) @@ (210 :> 2) @@
  (211 :> 2) @@ (225 :> 4) @@ (228 :> 4) @@ (229 :> 2) @@ (230 :> 3) @@ (231 :> 3) @@
  (232 :> 2) @@ (233 :> 3) @@ (234 :> 3) @@ (235 :> 3) @@ (236 :> 3) @@ (237 :> 1) @@
  (238 :> 3) @@ (239 :> 3) @@ (240 :> 1) @@ (241 :> 5) @@ (242 :> 5) @@ (243 :> 4) @@
  (244 :> 3)

Combos18 ==
  (0 :> 1) @@ (1 :> 2) @@ (2 :> 1) @@ (3 :> 2) @@ (4 :> 1) @@ (5 :> 3) @@
  (6 :> 1) @@ (7 :> 6) @@ (8 :> 2) @@ (9 :> 2) @@ (10 :> 1) @@ (13 :> 3)

Combos19 ==
  (2 :> 1) @@ (4 :> 1) @@ (5 :> 4) @@ (16 :> 2) @@ (17 :> 2) @@ (20 :> 1) @@
  (22 :> 3) @@ (24 :> 2) @@ (25 :> 3) @@ (26 :> 2) @@ (27 :> 2) @@ (28 :> 3) @@
  (29 :> 3) @@ (30 :> 1) @@ (31 :> 1) @@ (32 :> 1) @@ (33 :> 2) @@ (34 :> 5) @@
  (35 :> 6) @@ (36 :> 6) @@ (37 :> 2) @@ (38 :> 2) @@ (39 :> 2) @@ (40 :> 2)

Combos1A ==
  (0 :> 18) @@ (1 :> 18) @@ (4 :> 1) @@ (5 :> 3) @@ (6 :> 2) @@ (7 :> 1) @@
  (8 :> 1) @@ (9 :> 1) @@ (10 :> 1) @@ (11 :> 1)

Combos1C ==
  (0 :> 2) @@ (1 :> 2) @@ (2 :> 2) @@ (3 :> 2) @@ (4 :> 1) @@ (5 :> 2) @@
  (6 :> 2) @@ (7 :> 2) @@ (8 :> 2) @@ (9 :> 1) @@ (10 :> 5) @@ (11 :> 5) @@
  (12 :> 2) @@ (13 :> 1) @@ (14 :> 1) @@ (15 :> 1) @@ (17 :> 2) @@ (18 :> 2) @@
  (19 :> 3) @@ (20 :> 2) @@ (21 :> 2)

Combos1D ==
  (0 :> 3) @@ (1 :> 3) @@ (2 :> 2) @@ (3 :> 2) @@ (4 :> 3) @@ (5 :> 3) @@
  (6 :> 5) @@ (7 :> 5) @@ (8 :> 3) @@ (9 :> 3) @@ (10 :> 2) @@ (11 :> 2) @@
  (12 :> 3) @@ (13 :> 4) @@ (14 :> 3) @@ (15 :> 3) @@ (16 :> 3) @@ (17 :> 3) @@
  (18 :> 3) @@ (19 :> 3) @@ (20 :> 5) @@ (21 :> 3) @@ (23 :> 5) @@ (24 :> 2) @@
  (25 :> 2) @@ (32 :> 1) @@ (33 :> 2) @@ (34 :> 1) @@ (35 :> 2) @@ (36 :> 2)

\* BRANCHING_CODES: the opcodes, with the sub-bytes of the two-byte prefixes
\* (the empty set for a one-byte prefix)
BRANCHING_CODES ==
  <<<<6, {}>>, <<9, {}>>, <<27, {2}>>, <<27, {3}>>, <<31, {192}>>>>

(***************************************************************************)
(* getLength(i): the operand length of the variable-length opcode at       *)
(* data[i - 1], sub-opcode data[i].  Result [err, n].                      *)
(***************************************************************************)
Raise(e) == [err |-> e, n |-> 0]
Return(n) == [err |-> "ok", n |-> n]

\* combos[self.data[i]] inside try/except: any exception yields 0
LookupOrZero(combos, data, i) ==
  IF i >= Len(data) THEN Return(0)
  ELSE IF data[i + 1] \in DOMAIN combos THEN Return(combos[data[i + 1]])
  ELSE Return(0)

\* the 0x1F branch: a dictionary lookup outside the try
getLength1F(data, i) ==
  IF i >= Len(data) THEN Raise("IndexError")
  ELSE IF data[i + 1] # 192
       THEN (IF data[i + 1] \in DOMAIN Combos1F THEN Return(Combos1F[data[i + 1]])
             ELSE Raise("KeyError"))
       ELSE IF i + 1 >= Len(data) THEN Raise("IndexError")
            ELSE Return(2 + data[i + 2] * 4)

getLength(data, i) ==
  LET c == data[i] IN   \* self.data[i - 1]
  IF c = 9 THEN (IF i >= Len(data) THEN Raise("IndexError") ELSE Return(1 + data[i + 1] * 4))
  ELSE IF c = 27 THEN (IF i >= Len(data) THEN Raise("IndexError")
                       ELSE IF data[i + 1] = 2 \/ data[i + 1] = 3 THEN Return(5) ELSE Return(1))
  ELSE IF c = 30 THEN (IF i >= Len(data) THEN Raise("IndexError")
                       ELSE IF data[i + 1] = 9 THEN Return(5) ELSE Return(3))
  ELSE IF c = 31 THEN getLength1F(data, i)
  ELSE IF c = 24 THEN LookupOrZero(Combos18, data, i)
  ELSE IF c = 25 THEN LookupOrZero(Combos19, data, i)
  ELSE IF c = 26 THEN LookupOrZero(Combos1A, data, i)
  ELSE IF c = 28 THEN LookupOrZero(Combos1C, data, i)
  ELSE IF c = 29 THEN LookupOrZero(Combos1D, data, i)
  ELSE Return(0)   \* no branch binds combos: the NameError is caught by the bare except

(***************************************************************************)
(* The pieces of a block's text.                                           *)
(***************************************************************************)
Op(bytes) == [k |-> "op", b |-> bytes]        \* "[XX YY ZZ]"
Ch(code) == [k |-> "ch", b |-> <<code>>]      \* chr(code)
Coffee(bytes) == [k |-> "cf", b |-> bytes]    \* "[ XX ]" or "[ XX YY ]"
Staff(bytes) == [k |-> "st", b |-> bytes]     \* "[ XX ]" or "[ 03 YY ]"
StaffClose(bytes) == [k |-> "sc", b |-> bytes]  \* " ][ XX ]" or " ][ 03 YY ]"
StaffOpen == [k |-> "so", b |-> <<>>]         \* "["
StaffByte(c) == [k |-> "sx", b |-> <<c>>]     \* " XX"
StaffLine == [k |-> "nl", b |-> <<>>]         \* the three characters quote, newline, quote

(***************************************************************************)
(* PATTERNS: the eight reference-site shapes.  PatternMatch(p, t) is the   *)
(* match of pattern p on the piece t: groups()[0] as prefix bytes, the     *)
(* 4-byte groups of groups()[1], and the trailing byte of the 1A form.     *)
(* single is the code's len(groups) < 3.                                   *)
(***************************************************************************)
NoMatch == [hit |-> FALSE, single |-> TRUE, prefix |-> <<>>, ptrs |-> <<>>, tail |-> <<>>]

\* a variant that takes the first group only
Groups4_FirstOnly(bytes) == <<SubSeq(bytes, 1, 4)>>

Groups4(bytes) == [g \in 1..(Len(bytes) \div 4) |-> SubSeq(bytes, 4 * g - 3, 4 * g)]

PatternMatch(p, t) ==
  LET b == t.b
      n == Len(t.b)
      Single(plen) == [hit |-> TRUE, single |-> TRUE, prefix |-> SubSeq(b, 1, plen),
                       ptrs |-> <<SubSeq(b, plen + 1, plen + 4)>>, tail |-> <<>>]
      List(plen, tlen) == [hit |-> TRUE, single |-> FALSE, prefix |-> SubSeq(b, 1, plen),
                           ptrs |-> Groups4(SubSeq(b, plen + 1, n - tlen)),
                           tail |-> SubSeq(b, n - tlen + 1, n)]
  IN
  IF t.k # "op" \/ n = 0 THEN NoMatch
  ELSE IF p = 1 /\ b[1] = 6 /\ n = 7 THEN Single(3)
  ELSE IF p = 2 /\ b[1] = 8 /\ n = 5 THEN Single(1)
  ELSE IF p = 3 /\ b[1] = 9 /\ n >= 6 /\ (n - 2) % 4 = 0 THEN List(2, 0)
  ELSE IF p = 4 /\ b[1] = 10 /\ n = 5 THEN Single(1)
  ELSE IF p = 5 /\ b[1] = 26 /\ n >= 7 /\ (n - 3) % 4 = 0 /\ b[2] \in {0, 1} THEN List(2, 1)
  ELSE IF p = 6 /\ b[1] = 27 /\ n = 6 /\ b[2] \in {2, 3} THEN Single(2)
  ELSE IF p = 7 /\ b[1] = 31 /\ n = 6 /\ b[2] = 99 THEN Single(2)
  ELSE IF p = 8 /\ b[1] = 31 /\ n >= 7 /\ (n - 3) % 4 = 0 /\ b[2] = 192 THEN List(3, 0)
  ELSE NoMatch

PATTERNS == 1..8

\* the addresses one pattern finds in a text, in text order
PatternPointers(p, block) ==
  Flatten([k \in 1..Len(block) |->
             LET m == PatternMatch(p, block[k])
             IN [g \in 1..Len(m.ptrs) |-> AddressOfBytes(m.ptrs[g])]])

\* lines 725-737: what getText appends to self.pointers
ExtractPointers(block) == Flatten([p \in PATTERNS |-> PatternPointers(p, block)])

(***************************************************************************)
(* getText(i, stop, dataType).                                             *)
(***************************************************************************)
\* the state of the "while True" loop: the text so far, the position, the
\* flag the loop carries (expect02, or "text" in the staff loop), and whether
\* the loop has been left and how
Loop(err, block, i) == [err |-> err, block |-> block, i |-> i, flag |-> FALSE, done |-> TRUE]
Again(block, i, flag) == [err |-> "ok", block |-> block, i |-> i, flag |-> flag, done |-> FALSE]

\* a variant of the scan that looks at the one-byte prefixes only
IsBranch_OneByteOnly(data, c, initialI) ==
  \E k \in 1..Len(BRANCHING_CODES) :
     c = BRANCHING_CODES[k][1] /\ BRANCHING_CODES[k][2] = {}

\* the scan of BRANCHING_CODES (lines 661-668) for the operator at initialI
IsBranch(data, c, initialI) ==
  \E k \in 1..Len(BRANCHING_CODES) :
     /\ c = BRANCHING_CODES[k][1]
     /\ \/ BRANCHING_CODES[k][2] = {}
        \/ data[initialI + 2] \in BRANCHING_CODES[k][2]

\* the test at the top of the loop: "if stop and stop == i"
AtStop(stop, i) == stop # None /\ stop # 0 /\ stop = i

\* a variant in which any operator takes the expectation away
Absorbs02_AnyOpcode(c, expect02) == expect02

\* line 654: an expected [02] is absorbed
Absorbs02(c, expect02) == c = 2 /\ expect02

\* a variant in which only 0x02 ends a block
Terminator_Only02(c) == c = 2

\* line 657: the block-ending opcodes
Terminator(c) == c = 2 \/ c = 10

\* lines 625-675: one pass of the loop for normal text
NormalLoop(data, stop, splitjumps, s) ==
  LET i == s.i
      block == s.block
      expect02 == s.flag
  IN
  IF AtStop(stop, i) THEN Loop("ok", block, i)
  ELSE IF i >= Len(data) THEN Loop("IndexError", block, i)
  ELSE
    LET c == data[i + 1]
        i1 == i + 1
    IN
    IF c <= 48 THEN
      LET code == CONTROL_CODES[c + 1]
          length == IF code # None THEN Return(code) ELSE getLength(data, i1)
      IN
      IF length.err # "ok" THEN Loop(length.err, block, i1)
      ELSE IF c = 25 /\ i1 >= Len(data) THEN Loop("IndexError", block, i1)
      ELSE
        LET flag == expect02 \/ (c = 25 /\ data[i1 + 1] = 2)
            codeEnd == i1 + length.n
        IN
        IF codeEnd > Len(data) THEN Loop("IndexError", block, i1)
        ELSE
          LET block1 == Append(block, Op(SubSeq(data, i + 1, codeEnd)))
          IN
          IF Absorbs02(c, flag) THEN Again(block1, codeEnd, FALSE)
          ELSE IF Terminator(c) THEN Loop("ok", block1, codeEnd)
          ELSE IF splitjumps /\ IsBranch(data, c, i) THEN Loop("ok", block1, codeEnd)
          ELSE Again(block1, codeEnd, flag)
    ELSE IF c \in {82, 139, 140, 141} THEN Again(Append(block, Op(<<c>>)), i1, expect02)
    ELSE Again(Append(block, Ch(c - 48)), i1, expect02)

\* lines 677-699: one pass of the loop for the coffee and tea scenes
CoffeeLoop(data, stop, s) ==
  LET i == s.i
      block == s.block
  IN
  IF AtStop(stop, i) THEN Loop("ok", block, i)
  ELSE IF i >= Len(data) THEN Loop("IndexError", block, i)
  ELSE
    LET c == data[i + 1]
        i1 == i + 1
    IN
    IF c = 0 THEN Loop("ok", Append(block, Coffee(<<0>>)), i1)
    ELSE IF c \in {1, 2, 8} THEN
      IF i1 >= Len(data) THEN Loop("IndexError", block, i1)
      ELSE Again(Append(block, Coffee(<<c, data[i1 + 1]>>)), i1 + 1, FALSE)
    ELSE IF c = 9 THEN Again(Append(block, Coffee(<<9>>)), i1, FALSE)
    ELSE IF c < 48 THEN Loop("ValueError", block, i1)   \* chr() of a negative number
    ELSE Again(Append(block, Ch(c - 48)), i1, FALSE)

\* lines 700-722: one pass of the loop for the staff roll
StaffLoop(data, stop, s) ==
  LET i == s.i
      block == s.block
      text == s.flag
  IN
  IF AtStop(stop, i) THEN Loop("ok", block, i)
  ELSE IF i >= Len(data) THEN Loop("IndexError", block, i)
  ELSE
    LET c == data[i + 1]
        i1 == i + 1
    IN
    IF c \in {0, 1, 2, 4, 255} THEN
      LET block1 == Append(block, IF text THEN StaffClose(<<c>>) ELSE Staff(<<c>>))
          block2 == IF c = 0 THEN Append(block1, StaffLine) ELSE block1
      IN IF c = 255 THEN Loop("ok", block2, i1)
         ELSE Again(block2, i1, FALSE)
    ELSE IF c = 3 THEN
      IF i1 >= Len(data) THEN Loop("IndexError", block, i1)
      ELSE Again(Append(block, IF text THEN StaffClose(<<3, data[i1 + 1]>>)
                                       ELSE Staff(<<3, data[i1 + 1]>>)),
                 i1 + 1, FALSE)
    ELSE
      Again((IF text THEN block ELSE Append(block, StaffOpen)) \o <<StaffByte(c)>>,
            i1, TRUE)

\* one pass of the loop that dataType selects (lines 632, 677, 700)
Pass(data, stop, dataType, splitjumps, s) ==
  IF dataType = 0 THEN NormalLoop(data, stop, splitjumps, s)
  ELSE IF dataType = 1 THEN CoffeeLoop(data, stop, s)
  ELSE StaffLoop(data, stop, s)

\* n passes of the loop, or fewer when a pass leaves it: the first half of
\* the passes, then the rest from the state they reach
RECURSIVE Passes(_, _, _, _, _, _)
Passes(data, stop, dataType, splitjumps, s, n) ==
  IF s.done \/ n = 0 THEN s
  ELSE IF n = 1 THEN Pass(data, stop, dataType, splitjumps, s)
  ELSE CHOOSE r \in {Passes(data, stop, dataType, splitjumps, half, n - n \div 2) :
                       half \in {Passes(data, stop, dataType, splitjumps, s, n \div 2)}} : TRUE

\* getText: [block, i - start], i and the addresses appended to self.pointers.
\* A dataType other than 0, 1, 2 never occurs (loadDialogue passes 0, 1, 2 or
\* the default False, which equals 0).  Every pass that stays in the loop
\* moves i forward and a pass at the end of the data leaves it, so
\* Len(data) + 1 passes reach the return or the exception; a loop that they
\* do not leave is the result "Unfinished".
getText(data, start, stop, dataType, splitjumps) ==
  LET Returned(r) ==
        [err |-> IF r.done THEN r.err ELSE "Unfinished",
         block |-> r.block, length |-> r.i - start, i |-> r.i,
         pointers |-> IF r.done /\ r.err = "ok" THEN ExtractPointers(r.block) ELSE <<>>]
  IN CHOOSE ret \in {Returned(r) : r \in {Passes(data, stop, dataType, splitjumps,
                                                 Again(<<>>, start, FALSE),
                                                 Len(data) + 1)}} : TRUE

(***************************************************************************)
(* Helpers of loadDialogue.                                                *)
(***************************************************************************)
BaseHi == 192                         \* 0xc00000 = <<0xC0, 0x0000>>
OutOfImage == 65536                   \* every offset from here on is past the image

\* block = i + 0xc00000, for an offset of the image
BlockAddress(i) == <<BaseHi + (i \div 65536), i % 65536>>

\* address - 0xc00000.  An offset of 0x10000 or more is past every modelled
\* image, and so is, counted from the end, the negative offset of an
\* address below 0xbf0000: both are reported as OutOfImage, where getText
\* raises IndexError.  (The addresses 0xbf0000..0xbfffff, whose negative
\* offsets Python may count from the end of a large image, do not occur in
\* the modelled images.)
OffsetOf(address) == IF address[1] = BaseHi THEN address[2] ELSE OutOfImage

NoAddress == <<-1, -1>>               \* Python's None where an address is expected

\* sorted(...) of a list of addresses
SortAddresses(list) == SortSeq(list, AddrLess)

\* list(set(...)): the list without repetitions
Distinct(list) ==
  LET first == {k \in 1..Len(list) : \A j \in 1..(k - 1) : list[j] # list[k]}
  IN [n \in 1..Cardinality(first) |->
        list[CHOOSE k \in first : Cardinality({j \in first : j < k}) = n - 1]]

\* a variant of the loop that keeps the first key instead of the last
RECURSIVE FindClosestLoop_First(_, _, _)
FindClosestLoop_First(keys, searchKey, lower) ==
  IF keys = <<>> THEN lower
  ELSE IF AddrLeq(Head(keys), searchKey)
       THEN (IF lower = NoAddress THEN FindClosestLoop_First(Tail(keys), searchKey, Head(keys))
             ELSE FindClosestLoop_First(Tail(keys), searchKey, lower))
       ELSE lower

\* the loop of FindClosest over the sorted keys
RECURSIVE FindClosestLoop(_, _, _)
FindClosestLoop(keys, searchKey, lower) ==
  IF keys = <<>> THEN lower
  ELSE IF AddrLeq(Head(keys), searchKey)
       THEN FindClosestLoop(Tail(keys), searchKey, Head(keys))
       ELSE lower

\* FindClosest(dictionary, searchKey); dictionary is given by its keys in
\* insertion order
FindClosest(dictionary, searchKey) ==
  FindClosestLoop(SortAddresses(dictionary), searchKey, NoAddress)

PageSize == 100

\* enumerate(...): the position, from 0, of every element of a list
Enumerate(list) == [block \in Range(list) |-> (CHOOSE k \in 1..Len(list) : list[k] = block) - 1]

\* a variant that numbers the blocks in insertion order
AssignPages_Unsorted(keys) ==
  LET k == Enumerate(keys)
  IN [block \in DOMAIN k |-> k[block] \div PageSize]

\* lines 437-438: the page of every block, from its position in
\* sorted(self.dialogue); the page "data_NN" is its number NN
AssignPages(keys) ==
  LET k == Enumerate(SortAddresses(keys))
  IN [block \in DOMAIN k |-> k[block] \div PageSize]

(***************************************************************************)
(* State.                                                                  *)
(*  data, sections, raw, splitjumps : the image, the declared regions      *)
(*     (TEXT_DATA, scaled to the modelled image) and the two policy flags  *)
(*  pc, secIdx, pos                 : the position in loadDialogue /       *)
(*     processDialogue, the current section and the offset i               *)
(*  dialogue, order                 : self.dialogue and the insertion      *)
(*     order of its keys                                                   *)
(*  pointers, pending               : self.pointers and the local list     *)
(*     "pointers" of loadDialogue                                          *)
(*  dataFiles, specialPointers, asmPointers : the three label tables       *)
(*  procIdx                         : the block processDialogue is at      *)
(*  err                             : the exception that ended the run     *)
(*  initial, split                  : history: the block map after the     *)
(*     region decode, and the last split the resolver made                 *)
(*  unit                            : the argument and result of a single  *)
(*     call of a helper, for the specifications of the pure functions      *)
(***************************************************************************)
VARIABLES data, sections, raw, splitjumps, pc, secIdx, pos, dialogue, order,
          pointers, pending, dataFiles, specialPointers, asmPointers, procIdx,
          err, initial, split, unit

progVars == <<sections, raw, pc, secIdx, pos, dialogue, order, pointers, pending,
              dataFiles, specialPointers, asmPointers, procIdx, err, initial, split>>

vars == <<data, splitjumps, progVars, unit>>

Empty == [x \in {} |-> 0]
NoSplit == [valid |-> FALSE]

\* the program variables of a specification that only calls one helper
ProgIdle ==
  /\ sections = <<>> /\ raw = FALSE /\ pc = "unit" /\ secIdx = 0 /\ pos = 0
  /\ dialogue = Empty /\ order = <<>> /\ pointers = <<>> /\ pending = <<>>
  /\ dataFiles = Empty /\ specialPointers = Empty /\ asmPointers = Empty
  /\ procIdx = 0 /\ err = "ok" /\ initial = Empty /\ split = NoSplit

(***************************************************************************)
(* The sites of the image.  The real offsets (SPECIAL_POINTERS 0x49ea4..,  *)
(* ASM_POINTERS 0x49dbd.., COMPRESSED_TEXT_PTRS 0x8cded) are scaled to the *)
(* modelled image: one site of each kind, in its last SiteBytes bytes,     *)
(* after the text regions.                                                 *)
(***************************************************************************)
\* the last bytes of an image: the special site, the instruction site (LDA #lo;
\* STA dp; LDA #hi; STA dp, for the address 0xc00000), the one entry of the
\* compressed-text table and the dictionary string "A"
Sites(special, textLen) ==
  BytesOfAddress(special) \o <<169, 0, 0, 133, 14, 169, 192, 0, 133>>
    \o BytesOfAddress(BlockAddress(textLen + 17)) \o <<113, 0>>

SiteBytes == Len(Sites(Zero, 0))
SPECIAL_POINTERS == <<Len(data) - SiteBytes>>
ASM_POINTERS == <<Len(data) - SiteBytes + 4>>
COMPRESSED_TEXT_PTRS == Len(data) - SiteBytes + 13

\* dict assignment d[key] = value, with the insertion order of the keys
Put(d, key, value) == [x \in DOMAIN d \cup {key} |-> IF x = key THEN value ELSE d[x]]
PutOrder(keys, key) == IF key \in Range(keys) THEN keys ELSE Append(keys, key)

Entry(r) == [block |-> r.block, length |-> r.length]

Abort(e) == pc' = "aborted" /\ err' = e

(***************************************************************************)
(* loadDialogue, lines 359-369: one call of getText in the current         *)
(* section; the loops move on to the next section when i reaches its end.  *)
(***************************************************************************)
DecodeBlock ==
  /\ pc = "decode"
  /\ LET section == sections[secIdx]
     IN \E r \in {getText(data, pos, None, section[3], splitjumps)} :
        IF r.err # "ok"
        THEN /\ Abort(r.err)
             /\ UNCHANGED <<secIdx, pos, dialogue, order, pointers, initial>>
        ELSE /\ dialogue' = Put(dialogue, BlockAddress(pos), Entry(r))
             /\ order' = PutOrder(order, BlockAddress(pos))
             /\ pointers' = pointers \o r.pointers
             /\ err' = err
             /\ IF r.i < section[2]
                THEN /\ pos' = r.i /\ secIdx' = secIdx /\ pc' = pc
                     /\ initial' = initial
                ELSE IF secIdx < Len(sections)
                THEN /\ secIdx' = secIdx + 1 /\ pos' = sections[secIdx + 1][1]
                     /\ pc' = pc /\ initial' = initial
                ELSE /\ secIdx' = secIdx /\ pos' = r.i /\ pc' = "seed"
                     /\ initial' = dialogue'
  /\ UNCHANGED <<data, sections, raw, splitjumps, pending, dataFiles,
                 specialPointers, asmPointers, procIdx, split, unit>>

\* lines 413-418 and 442-447: the address held at a special site
SpecialAddress(p) == AddressOfBytes(SubSeq(data, p + 1, p + 4))

\* a variant that keeps the pointers that are block starts
PendingOf_KeepStarts(list, keys) ==
  SelectSeq(SortAddresses(Distinct(list)), LAMBDA a : a # Zero)

\* lines 422-426: the sorted, distinct, non-zero pointers that are no block start
PendingOf(list, keys) ==
  LET sorted == SortAddresses(Distinct(list))
  IN SelectSeq(sorted, LAMBDA a : a # Zero /\ a \notin Range(keys))

(***************************************************************************)
(* lines 411-426: the special sites are appended to self.pointers and the  *)
(* list of pointers to resolve is made.  (loadCoilSnake is False.)         *)
(***************************************************************************)
SeedPointers ==
  /\ pc = "seed"
  /\ IF \E k \in 1..Len(SPECIAL_POINTERS) : SPECIAL_POINTERS[k] + 4 > Len(data)
     THEN Abort("IndexError") /\ UNCHANGED <<pointers, pending>>
     ELSE /\ pending' = PendingOf(pointers \o [k \in 1..Len(SPECIAL_POINTERS) |->
                                                  SpecialAddress(SPECIAL_POINTERS[k])],
                                  order)
          /\ pointers' = <<>>
          /\ pc' = IF pending' = <<>> THEN "assign" ELSE "resolve"
          /\ err' = err
  /\ UNCHANGED <<data, sections, raw, splitjumps, secIdx, pos, dialogue, order,
                 dataFiles, specialPointers, asmPointers, procIdx, initial, split, unit>>

\* the synthetic piece "[0A " + ToSNES(pointer) + "]"
Continue(pointer) == Op(<<10>> \o BytesOfAddress(pointer))

(***************************************************************************)
(* lines 427-434: one round of the loop over the pending pointers.         *)
(***************************************************************************)
ResolvePointer ==
  /\ pc = "resolve"
  /\ LET pointer == Head(pending)
     IN \E lower \in {FindClosest(order, pointer)} :
        IF lower = NoAddress
        THEN Abort("AssertionError") /\ UNCHANGED <<dialogue, order, pointers, pending, split>>
        ELSE
        \E r1 \in {getText(data, OffsetOf(lower), OffsetOf(pointer), 0, splitjumps)} :
        IF r1.err # "ok"
        THEN Abort(r1.err) /\ UNCHANGED <<dialogue, order, pointers, pending, split>>
        ELSE
        \E r2 \in {getText(data, OffsetOf(pointer), None, 0, splitjumps)},
           cut \in {Put(dialogue, lower,
                        [block |-> Append(r1.block, Continue(pointer)),
                         length |-> r1.length])} :
        IF r2.err # "ok"
        THEN /\ Abort(r2.err)
             /\ dialogue' = cut
             /\ pointers' = pointers \o r1.pointers
             /\ UNCHANGED <<order, pending, split>>
        ELSE /\ dialogue' = Put(cut, pointer, Entry(r2))
             /\ order' = PutOrder(order, pointer)
             /\ pointers' = pointers \o r1.pointers \o r2.pointers
             /\ pending' = Tail(pending)
             /\ split' = [valid |-> TRUE, lower |-> lower, pointer |-> pointer,
                          before |-> dialogue[lower],
                          cut |-> r1.block, fresh |-> r2.block]
             /\ pc' = IF Tail(pending) = <<>> THEN "assign" ELSE "resolve"
             /\ err' = err
  /\ UNCHANGED <<data, sections, raw, splitjumps, secIdx, pos, dataFiles,
                 specialPointers, asmPointers, procIdx, initial, unit>>

(***************************************************************************)
(* lines 436-438: the pages.                                               *)
(***************************************************************************)
AssignDataFiles ==
  /\ pc = "assign"
  /\ dataFiles' = AssignPages(order)
  /\ pc' = "sites"
  /\ UNCHANGED <<data, sections, raw, splitjumps, secIdx, pos, dialogue, order,
                 pointers, pending, specialPointers, asmPointers, procIdx, err,
                 initial, split, unit>>

\* lines 452-467: the address of an instruction-operand site, NoAddress
\* where the addressing-mode byte is neither 0x85 nor 0x8d
AsmAddress(a) ==
  IF data[a + 4] = 133
  THEN AddressOfBytes(<<data[a + 2], data[a + 3], data[a + 7], data[a + 8]>>)
  ELSE IF data[a + 4] = 141
  THEN AddressOfBytes(<<data[a + 2], data[a + 3], data[a + 8], data[a + 9]>>)
  ELSE NoAddress

AsmType(a) == IF data[a + 4] = 133 THEN 0 ELSE 1

\* a label "data_NN.l_0x..." is its page and its address; ZeroRef stands for
\* the text " 00 00 00 00" where a label would be
Label(address) == [page |-> dataFiles[address], address |-> address]
ZeroRef == [page |-> None, address |-> Zero]

(***************************************************************************)
(* lines 440-470: the labels of the special sites.  The first site whose   *)
(* address has no page raises KeyError; an unknown addressing mode fails   *)
(* the assertion.                                                          *)
(***************************************************************************)
LabelSites ==
  /\ pc = "sites"
  /\ LET badSpecial == {k \in 1..Len(SPECIAL_POINTERS) :
                          SpecialAddress(SPECIAL_POINTERS[k]) \notin DOMAIN dataFiles}
         badAsm == {k \in 1..Len(ASM_POINTERS) :
                      AsmAddress(ASM_POINTERS[k]) \notin DOMAIN dataFiles}
         Min(S) == CHOOSE k \in S : \A j \in S : k <= j
         doneSpecial == IF badSpecial = {} THEN 1..Len(SPECIAL_POINTERS)
                        ELSE 1..(Min(badSpecial) - 1)
         doneAsm == IF badSpecial # {} THEN {}
                    ELSE IF badAsm = {} THEN 1..Len(ASM_POINTERS)
                    ELSE 1..(Min(badAsm) - 1)
     IN /\ specialPointers' =
             [p \in {SPECIAL_POINTERS[k] : k \in doneSpecial} |-> Label(SpecialAddress(p))]
        /\ asmPointers' =
             [a \in {ASM_POINTERS[k] : k \in doneAsm} |->
                [label |-> Label(AsmAddress(a)), t |-> AsmType(a)]]
        /\ IF badSpecial # {} THEN Abort("KeyError")
           ELSE IF badAsm = {} THEN pc' = "process" /\ err' = err
           ELSE IF AsmAddress(ASM_POINTERS[Min(badAsm)]) = NoAddress
           THEN Abort("AssertionError")
           ELSE Abort("KeyError")
  /\ UNCHANGED <<data, sections, raw, splitjumps, secIdx, pos, dialogue, order,
                 pointers, pending, dataFiles, procIdx, initial, split, unit>>

(***************************************************************************)
(* processDialogue.  The processed text is again a sequence of pieces;     *)
(* besides those of getText there are                                      *)
(*   Quote                    the character '"'                            *)
(*   Ch(32), Ch(10)           a blank, a newline                           *)
(*   Word(w)                  the letters w                                *)
(*   Command(name, label)     name(data_NN.l_0x...)                        *)
(*   Ref(prefix, refs, tail)  "[" prefix, then "{e(label)}" or             *)
(*                            "00 00 00 00" for each of refs, tail, "]"    *)
(*   Macro(name, args)        {name} or {name(a, b)}                       *)
(* A character of the compressed dictionary is Ch(code) like any other.    *)
(* The characters of the texts that Init and InitPages compose print as    *)
(* letters, none of them as a bracket, a brace or a quote, so that in      *)
(* processDialogue a piece is never re-read as a part of another.          *)
(***************************************************************************)
Quote == [k |-> "q", b |-> <<>>]
Blank == Ch(32)
Newline == Ch(10)
Word(w) == [k |-> "w", b |-> <<>>, w |-> w]
Command(name, label) == [k |-> "cmd", b |-> <<>>, w |-> name, label |-> label]
Ref(prefix, refs, tail) == [k |-> "ref", b |-> prefix, refs |-> refs, tail |-> tail]
Macro(name, args) == [k |-> "m", b |-> args, w |-> name]

Result(e, out) == [err |-> e, out |-> out]

\* the slice self.data[p:p + 4], cut off at the end of the image
Slice4(p) == IF p >= Len(data) THEN <<>>
             ELSE SubSeq(data, p + 1, IF p + 4 <= Len(data) THEN p + 4 ELSE Len(data))

\* the characters from the index on, up to a zero byte
RECURSIVE DictionaryString(_, _)
DictionaryString(index, out) ==
  IF index >= Len(data) THEN Result("IndexError", out)
  ELSE IF data[index + 1] = 0 THEN Result("ok", out)
  ELSE IF data[index + 1] < 48 THEN Result("ValueError", out)
  ELSE DictionaryString(index + 1, Append(out, Ch(data[index + 1] - 48)))

\* replaceCompressedText for the piece [15|16|17 XX]
replaceCompressedText(piece) ==
  LET bank == piece.b[1] - 21
      idx == piece.b[2]
      p == COMPRESSED_TEXT_PTRS + (bank * 256 + idx) * 4
      bytes == Slice4(p)
      address == AddressOfBytes(bytes \o SubSeq(<<0, 0, 0, 0>>, 1, 4 - Len(bytes)))
  IN IF bytes = <<>> THEN Result("TypeError", <<>>)      \* reduce() of an empty sequence
     ELSE IF address[1] = BaseHi THEN DictionaryString(address[2], <<>>)
     ELSE IF address[1] = BaseHi - 1 /\ address[2] >= 65536 - Len(data)
          THEN DictionaryString(Len(data) + address[2] - 65536, <<>>)  \* a negative index
     ELSE Result("IndexError", <<>>)

IsCompressed(piece) == piece.k = "op" /\ Len(piece.b) = 2 /\ piece.b[1] \in {21, 22, 23}

\* line 483: re.sub over the block; the first exception ends the run
ExpandCompressed(b) ==
  LET parts == [k \in 1..Len(b) |->
                  IF IsCompressed(b[k]) THEN replaceCompressedText(b[k])
                  ELSE Result("ok", <<b[k]>>)]
      bad == {k \in 1..Len(b) : parts[k].err # "ok"}
  IN IF bad = {} THEN Result("ok", Flatten([k \in 1..Len(b) |-> parts[k].out]))
     ELSE Result(parts[CHOOSE k \in bad : \A j \in bad : k <= j].err, b)

\* a variant that writes goto / call also in raw mode
replaceWithLabel_IgnoreRaw(m, files, isRaw) ==
  LET One(bytes) == IF AddressOfBytes(bytes) = Zero THEN ZeroRef
                    ELSE [page |-> files[AddressOfBytes(bytes)],
                          address |-> AddressOfBytes(bytes)]
      missing == \E g \in 1..Len(m.ptrs) :
                    AddressOfBytes(m.ptrs[g]) # Zero /\ AddressOfBytes(m.ptrs[g]) \notin DOMAIN files
  IN IF missing THEN Result("KeyError", <<>>)
     ELSE IF m.single
     THEN (IF AddressOfBytes(m.ptrs[1]) = Zero THEN Result("ok", <<Op(m.prefix \o <<0, 0, 0, 0>>)>>)
           ELSE IF m.prefix = <<10>>
           THEN Result("ok", <<Quote, Blank, Command("goto", One(m.ptrs[1])), Blank, Quote>>)
           ELSE IF m.prefix = <<8>>
           THEN Result("ok", <<Quote, Blank, Command("call", One(m.ptrs[1])), Blank, Quote>>)
           ELSE Result("ok", <<Ref(m.prefix, <<One(m.ptrs[1])>>, <<>>)>>))
     ELSE Result("ok", <<Ref(m.prefix, [g \in 1..Len(m.ptrs) |-> One(m.ptrs[g])], m.tail)>>)

\* replaceWithLabel for a match m, with self.dataFiles and self.raw
replaceWithLabel(m, files, isRaw) ==
  LET One(bytes) == IF AddressOfBytes(bytes) = Zero THEN ZeroRef
                    ELSE [page |-> files[AddressOfBytes(bytes)],
                          address |-> AddressOfBytes(bytes)]
      missing == \E g \in 1..Len(m.ptrs) :
                    AddressOfBytes(m.ptrs[g]) # Zero /\ AddressOfBytes(m.ptrs[g]) \notin DOMAIN files
  IN IF missing THEN Result("KeyError", <<>>)
     ELSE IF m.single
     THEN (IF AddressOfBytes(m.ptrs[1]) = Zero THEN Result("ok", <<Op(m.prefix \o <<0, 0, 0, 0>>)>>)
           ELSE IF m.prefix = <<10>> /\ ~isRaw
           THEN Result("ok", <<Quote, Blank, Command("goto", One(m.ptrs[1])), Blank, Quote>>)
           ELSE IF m.prefix = <<8>> /\ ~isRaw
           THEN Result("ok", <<Quote, Blank, Command("call", One(m.ptrs[1])), Blank, Quote>>)
           ELSE Result("ok", <<Ref(m.prefix, <<One(m.ptrs[1])>>, <<>>)>>))
     ELSE Result("ok", <<Ref(m.prefix, [g \in 1..Len(m.ptrs) |-> One(m.ptrs[g])], m.tail)>>)

\* lines 488-491: re.sub of one pattern; a KeyError leaves the text as it was
SubstitutePattern(p, b, files, isRaw) ==
  LET parts == [k \in 1..Len(b) |->
                  IF PatternMatch(p, b[k]).hit
                  THEN replaceWithLabel(PatternMatch(p, b[k]), files, isRaw)
                  ELSE Result("ok", <<b[k]>>)]
  IN IF \E k \in 1..Len(b) : parts[k].err # "ok" THEN b
     ELSE Flatten([k \in 1..Len(b) |-> parts[k].out])

\* lines 487-491: the patterns in order
RECURSIVE SubstituteFrom(_, _, _, _)
SubstituteFrom(p, b, files, isRaw) ==
  IF p > 8 THEN b
  ELSE SubstituteFrom(p + 1, SubstitutePattern(p, b, files, isRaw), files, isRaw)

SubstituteLabels(b, files, isRaw) == SubstituteFrom(1, b, files, isRaw)

(***************************************************************************)
(* The macro passes of processDialogue (lines 494-499).                    *)
(***************************************************************************)
\* REPLACE: the pairs of a text and its replacement, in order
REPLACE ==
  <<<<<<Op(<<19>>), Op(<<2>>), Quote>>, <<Quote, Blank, Word("end")>>>>,
   <<<<Op(<<3>>), Op(<<0>>)>>, <<Quote, Blank, Word("next"), Newline, Quote>>>>,
   <<<<Op(<<0>>)>>, <<Quote, Blank, Word("linebreak"), Newline, Quote>>>>,
   <<<<Op(<<1>>)>>, <<Quote, Blank, Word("newline"), Newline, Quote>>>>,
   <<<<Op(<<2>>), Quote>>, <<Quote, Blank, Word("eob")>>>>,
   <<<<Op(<<15>>)>>, <<Macro("inc", <<>>)>>>>,
   <<<<Op(<<13, 0>>)>>, <<Macro("rtoarg", <<>>)>>>>,
   <<<<Op(<<13, 1>>)>>, <<Macro("ctoarg", <<>>)>>>>,
   <<<<Op(<<18>>)>>, <<Macro("clearline", <<>>)>>>>,
   <<<<Op(<<19>>)>>, <<Macro("wait", <<>>)>>>>,
   <<<<Op(<<20>>)>>, <<Macro("prompt", <<>>)>>>>,
   <<<<Op(<<24, 0>>)>>, <<Macro("window_closetop", <<>>)>>>>,
   <<<<Op(<<24, 4>>)>>, <<Macro("window_closeall", <<>>)>>>>,
   <<<<Op(<<24, 6>>)>>, <<Macro("window_clear", <<>>)>>>>,
   <<<<Op(<<24, 10>>)>>, <<Macro("open_wallet", <<>>)>>>>,
   <<<<Op(<<27, 0>>)>>, <<Macro("store_registers", <<>>)>>>>,
   <<<<Op(<<27, 1>>)>>, <<Macro("load_registers", <<>>)>>>>,
   <<<<Op(<<27, 4>>)>>, <<Macro("swap", <<>>)>>>>,
   <<<<Op(<<28, 4>>)>>, <<Macro("open_hp", <<>>)>>>>,
   <<<<Op(<<28, 13>>)>>, <<Macro("user", <<>>)>>>>,
   <<<<Op(<<28, 14>>)>>, <<Macro("target", <<>>)>>>>,
   <<<<Op(<<28, 15>>)>>, <<Macro("delta", <<>>)>>>>,
   <<<<Op(<<28, 8, 1>>), Blank, Blank>>, <<Macro("smash", <<>>)>>>>,
   <<<<Op(<<28, 8, 2>>), Blank, Blank>>, <<Macro("youwon", <<>>)>>>>,
   <<<<Op(<<31, 1, 2>>)>>, <<Macro("music_stop", <<>>)>>>>,
   <<<<Op(<<31, 3>>)>>, <<Macro("music_resume", <<>>)>>>>,
   <<<<Op(<<31, 5>>)>>, <<Macro("music_switching_off", <<>>)>>>>,
   <<<<Op(<<31, 6>>)>>, <<Macro("music_switching_on", <<>>)>>>>,
   <<<<Op(<<31, 176>>)>>, <<Macro("save", <<>>)>>>>,
   <<<<Op(<<31, 48>>)>>, <<Macro("font_normal", <<>>)>>>>,
   <<<<Op(<<31, 49>>)>>, <<Macro("font_saturn", <<>>)>>>>,
   <<<<Blank, Quote, Quote>>, <<>>>>,
   <<<<Blank, Quote, Quote, Blank>>, <<Blank>>>>,
   <<<<Blank, Quote, Quote>>, <<>>>>,
   <<<<Quote, Quote, Blank>>, <<>>>>>>

\* str.replace: the occurrences of old from left to right, without overlap
RECURSIVE StrReplace(_, _, _)
StrReplace(b, old, new) ==
  IF Len(b) < Len(old) THEN b
  ELSE IF SubSeq(b, 1, Len(old)) = old
       THEN new \o StrReplace(SubSeq(b, Len(old) + 1, Len(b)), old, new)
       ELSE <<Head(b)>> \o StrReplace(Tail(b), old, new)

\* lines 495-496: b.replace(r[0], r[1]) for the rows first..last of REPLACE,
\* in order: the first half of the rows, then the second half on the result
\* (an empty text has nothing to replace)
RECURSIVE ReplaceRows(_, _, _)
ReplaceRows(b, first, last) ==
  IF first = last THEN StrReplace(b, REPLACE[first][1], REPLACE[first][2])
  ELSE LET mid == (first + last) \div 2
           half == ReplaceRows(b, first, mid)
       IN IF half = <<>> THEN <<>> ELSE ReplaceRows(half, mid + 1, last)

\* RE_REPLACE with RE_REPLACE_TARGETS: the operator bytes group 1 matches,
\* the number of argument bytes of group 2 and the name of the template.
\* The alternative "1F 07]" of the third expression needs a "]" inside the
\* brackets and matches no piece.
RE_REPLACE ==
  <<<<<<4>>, 2, "set(flag">>, <<<<5>>, 2, "unset(flag">>, <<<<7>>, 2, "isset(flag">>,
    <<<<16>>, 1, "pause">>, <<<<24, 1>>, 1, "window_open">>,
    <<<<24, 3>>, 1, "window_switch">>, <<<<14>>, 1, "counter">>,
    <<<<11>>, 1, "result_is">>, <<<<12>>, 1, "result_not">>,
    <<<<31, 2>>, 1, "sound">>, <<<<31, 0, 0>>, 1, "music">>>>

\* the value FromSNES gives for one or two argument bytes
SmallValue(bytes) == IF Len(bytes) = 1 THEN bytes[1] ELSE bytes[2] * 256 + bytes[1]

\* replaceWithCCScript on one piece
replaceWithCCScript(piece) ==
  LET rows == {r \in 1..Len(RE_REPLACE) :
                 /\ piece.k = "op"
                 /\ Len(piece.b) = Len(RE_REPLACE[r][1]) + RE_REPLACE[r][2]
                 /\ SubSeq(piece.b, 1, Len(RE_REPLACE[r][1])) = RE_REPLACE[r][1]}
  IN IF rows = {} THEN piece
     ELSE LET r == CHOOSE r \in rows : TRUE
          IN Macro(RE_REPLACE[r][3],
                   <<SmallValue(SubSeq(piece.b, Len(RE_REPLACE[r][1]) + 1, Len(piece.b)))>>)

\* GREY_BYTE_REPLACEMENTS, in the order of the dictionary: the command, the
\* bytes before the captured argument bytes, their number, the bytes after
GREY_BYTE_REPLACEMENTS ==
  <<<<"itemname", <<28, 5>>, 2, <<>>>>,
   <<"name", <<28, 2>>, 1, <<>>>>,
   <<"psiname", <<28, 18>>, 1, <<>>>>,
   <<"stat", <<28, 1>>, 1, <<>>>>,
   <<"teleportname", <<28, 6>>, 1, <<>>>>,
   <<"text_blips", <<31, 4>>, 1, <<>>>>,
   <<"text_color", <<28, 0>>, 1, <<>>>>,
   <<"text_pos", <<24, 5>>, 2, <<>>>>,
   <<"give", <<29, 0>>, 2, <<>>>>,
   <<"hasitem", <<29, 5>>, 2, <<>>>>,
   <<"take", <<29, 1>>, 2, <<>>>>,
   <<"usable", <<31, 129>>, 2, <<>>>>,
   <<"boost_guts", <<30, 11>>, 2, <<>>>>,
   <<"boost_iq", <<30, 10>>, 2, <<>>>>,
   <<"boost_luck", <<30, 14>>, 2, <<>>>>,
   <<"boost_speed", <<30, 12>>, 2, <<>>>>,
   <<"boost_vitality", <<30, 13>>, 2, <<>>>>,
   <<"change_level", <<30, 8>>, 2, <<>>>>,
   <<"consumepp", <<30, 7>>, 2, <<>>>>,
   <<"consumepp_percent", <<30, 5>>, 2, <<>>>>,
   <<"heal", <<30, 2>>, 2, <<>>>>,
   <<"heal_percent", <<30, 0>>, 2, <<>>>>,
   <<"hurt", <<30, 3>>, 2, <<>>>>,
   <<"hurt_percent", <<30, 1>>, 2, <<>>>>,
   <<"recoverpp", <<30, 6>>, 2, <<>>>>,
   <<"recoverpp_percent", <<30, 4>>, 2, <<>>>>,
   <<"music", <<31, 0, 0>>, 1, <<>>>>,
   <<"music_effect", <<31, 7>>, 1, <<>>>>,
   <<"sound", <<31, 2>>, 1, <<>>>>,
   <<"event", <<31, 65>>, 1, <<>>>>,
   <<"hotspot_off", <<31, 103>>, 1, <<>>>>,
   <<"learnpsi", <<31, 113>>, 2, <<>>>>,
   <<"lock_movement", <<31, 229>>, 1, <<>>>>,
   <<"party_add", <<31, 17>>, 1, <<>>>>,
   <<"party_remove", <<31, 18>>, 1, <<>>>>,
   <<"teleport", <<31, 32>>, 2, <<>>>>,
   <<"warp", <<31, 33>>, 1, <<>>>>,
   <<"show_party", <<31, 236, 255>>, 1, <<>>>>,
   <<"char_direction", <<31, 19>>, 2, <<>>>>,
   <<"show_char", <<31, 236>>, 2, <<>>>>,
   <<"hide_char", <<31, 235>>, 1, <<6>>>>,
   <<"hide_char_float", <<31, 29>>, 1, <<>>>>>>

GreyMatches(g, piece) ==
  LET row == GREY_BYTE_REPLACEMENTS[g]
  IN /\ piece.k = "op"
     /\ Len(piece.b) = Len(row[2]) + row[3] + Len(row[4])
     /\ SubSeq(piece.b, 1, Len(row[2])) = row[2]
     /\ SubSeq(piece.b, Len(row[2]) + row[3] + 1, Len(piece.b)) = row[4]

\* grey_replaceByteArgs: every argument byte as a decimal number
grey_replaceByteArgs(byteArgs, ccScriptCommand) == Macro(ccScriptCommand, byteArgs)

\* grey_replace_all on one piece: the first expression of the dictionary
\* that matches rewrites it, and the result matches no later one
grey_replace_all(piece) ==
  LET rows == {g \in 1..Len(GREY_BYTE_REPLACEMENTS) : GreyMatches(g, piece)}
  IN IF rows = {} THEN piece
     ELSE LET g == CHOOSE g \in rows : \A h \in rows : g <= h
              row == GREY_BYTE_REPLACEMENTS[g]
          IN grey_replaceByteArgs(SubSeq(piece.b, Len(row[2]) + 1, Len(row[2]) + row[3]), row[1])

\* lines 495-499
ReplaceControlCodes(b) ==
  LET b1 == ReplaceRows(b, 1, Len(REPLACE))
      b2 == [k \in 1..Len(b1) |-> replaceWithCCScript(b1[k])]
  IN [k \in 1..Len(b2) |-> grey_replace_all(b2[k])]

\* the body of the loop of processDialogue for one block text
ProcessText(text, files, isRaw) ==
  LET quoted == <<Quote>> \o text \o <<Quote>>
      expanded == IF isRaw THEN Result("ok", quoted) ELSE ExpandCompressed(quoted)
      labelled == SubstituteLabels(expanded.out, files, isRaw)
  IN IF expanded.err # "ok" THEN Result(expanded.err, text)
     ELSE IF isRaw THEN Result("ok", labelled)
     ELSE CHOOSE r \in {Result("ok", ReplaceControlCodes(b)) : b \in {labelled}} : TRUE

(***************************************************************************)
(* processDialogue, lines 477-501: one block of self.dialogue, in the      *)
(* order of the dictionary.                                                *)
(***************************************************************************)
ProcessBlock ==
  /\ pc = "process"
  /\ LET block == order[procIdx]
         r == ProcessText(dialogue[block].block, dataFiles, raw)
     IN IF r.err # "ok"
        THEN Abort(r.err) /\ UNCHANGED <<dialogue, procIdx>>
        ELSE /\ dialogue' = [dialogue EXCEPT ![block].block = r.out]
             /\ procIdx' = procIdx + 1
             /\ pc' = IF procIdx = Len(order) THEN "done" ELSE "process"
             /\ err' = err
  /\ UNCHANGED <<data, sections, raw, splitjumps, secIdx, pos, order, pointers,
                 pending, dataFiles, specialPointers, asmPointers, initial, split, unit>>

(***************************************************************************)
(* Spec: loadDialogue and processDialogue on small images.  The text is    *)
(* TextLen bytes put together from Fragments and closed by 0x02, in two    *)
(* adjacent Normal sections; the special site holds an address inside the  *)
(* text, the instruction site the address of the first block.              *)
(***************************************************************************)
TextLen == 7
Boundary == 4

Fragments ==
  {<<2>>, <<113>>, <<21, 0>>, <<25, 2>>, <<4, 10>>, <<10, 0, 0, 0, 0>>,
   <<8, 5, 0, 192, 0>>, <<8, 6, 0, 192, 0>>, <<10, 5, 0, 192, 0>>, <<10, 6, 0, 192, 0>>,
   <<27, 2, 3, 0, 192, 0>>}

\* every text of n bytes made of fragments
RECURSIVE Compose(_)
Compose(n) ==
  IF n = 0 THEN {<<>>}
  ELSE UNION {{f \o t : t \in Compose(n - Len(f))} : f \in {g \in Fragments : Len(g) <= n}}

StartLoad ==
  /\ pc = "decode" /\ secIdx = 1 /\ pos = sections[1][1]
  /\ dialogue = Empty /\ order = <<>> /\ pointers = <<>> /\ pending = <<>>
  /\ dataFiles = Empty /\ specialPointers = Empty /\ asmPointers = Empty
  /\ procIdx = 1 /\ err = "ok" /\ initial = Empty /\ split = NoSplit
  /\ unit = [fn |-> "none"]

Init ==
  /\ \E text \in Compose(TextLen - 1), k \in 1..(TextLen - 1) :
       data = text \o <<2>> \o Sites(BlockAddress(k), TextLen)
  /\ sections = <<<<0, Boundary, 0>>, <<Boundary, TextLen, 0>>>>
  /\ raw \in BOOLEAN
  /\ splitjumps = FALSE
  /\ StartLoad

Next ==
  \/ DecodeBlock
  \/ SeedPointers
  \/ ResolvePointer
  \/ AssignDataFiles
  \/ LabelSites
  \/ ProcessBlock

Spec == Init /\ [][Next]_vars

\* loadDialogue has returned and processDialogue has not yet touched a block
LoadDone == pc = "process" /\ procIdx = 1

\* the byte ranges [a, a + la) and [b, b + lb) share a byte
Intersect(a, la, b, lb) ==
  LET Gap(x, y) == IF y[1] = x[1] THEN y[2] - x[2]            \* y - x, for x <= y
                   ELSE IF y[1] = x[1] + 1 THEN 65536 + y[2] - x[2]
                   ELSE 65536
  IN IF AddrLeq(a, b) THEN Gap(a, b) < la ELSE Gap(b, a) < lb

\* C1: after loadDialogue, the byte ranges [A, A+L) of any two distinct
\* blocks of the block map do not intersect.
C1_NonOverlap ==
  LoadDone =>
    \A a \in DOMAIN dialogue, b \in DOMAIN dialogue :
       a # b => ~Intersect(a, dialogue[a].length, b, dialogue[b].length)

\* C2: after loadDialogue, every non-zero address the pattern scan finds in
\* the text of a block is a key of the block map.
C2_NoDangling ==
  LoadDone =>
    \A a \in DOMAIN dialogue :
       \A ptr \in Range(ExtractPointers(dialogue[a].block)) :
          ptr # Zero => ptr \in DOMAIN dialogue

\* the last split cut the block at S (recorded length L) at an address P
\* with S < P < S + L
SplitInside ==
  /\ split.valid
  /\ split.lower # split.pointer
  /\ Intersect(split.lower, split.before.length, split.pointer, 1)

\* C3: when a block is split at P inside its range, the text of the block at
\* S without the trailing continuation piece, followed by the text of the
\* block at P, is the text the block had before the split.
C3_SplitConcatenates ==
  SplitInside => split.cut \o split.fresh = split.before.block

\* the 0-based position of a block among the sorted keys of the block map
Rank(block) == Cardinality({b \in DOMAIN dialogue : AddrLess(b, block)})

\* the pages have been assigned
PagesAssigned == pc \in {"sites", "process", "done"}

\* C5: once the pages are assigned, every block of the block map has one
\* page, the page number is the rank of its address among all block
\* addresses divided by 100, whatever the insertion order; no page holds
\* more than 100 blocks, and the block map has no key without a page, in
\* this and every later state.
C5_PageOfRank ==
  (PagesAssigned \/ (pc = "aborted" /\ dataFiles # Empty)) =>
     /\ DOMAIN dataFiles = DOMAIN dialogue
     /\ \A block \in DOMAIN dialogue : dataFiles[block] = Rank(block) \div 100
     /\ \A page \in Range([k \in 1..Len(order) |-> dataFiles[order[k]]]) :
          Cardinality({b \in DOMAIN dataFiles : dataFiles[b] = page}) <= 100

\* C5 witness: 250 blocks on the pages 0, 1 and 2, the block that the
\* resolver added last being the second in address order
C5_Witness ==
  /\ pc = "done"
  /\ Len(order) = 250
  /\ order[250] = BlockAddress(1)
  /\ dataFiles[BlockAddress(1)] = 0
  /\ {dataFiles[b] : b \in DOMAIN dataFiles} = {0, 1, 2}
  /\ Cardinality({b \in DOMAIN dataFiles : dataFiles[b] = 2}) = 50

\* the step is processDialogue's work on one block, in raw mode
RawStep == raw /\ pc = "process" /\ pc' # "aborted" /\ procIdx' = procIdx + 1

\* C10 as stated: in raw mode the output text of every block is the decoded
\* text in double quotes, pointer operators left as their raw bytes.
C10_RawLeavesBytes ==
  [][RawStep =>
       dialogue'[order[procIdx]].block =
          <<Quote>> \o dialogue[order[procIdx]].block \o <<Quote>>]_vars

\* the pattern that matches a piece, 0 if none does
PatternOf(t) ==
  IF \E p \in PATTERNS : PatternMatch(p, t).hit
  THEN CHOOSE p \in PATTERNS : PatternMatch(p, t).hit
  ELSE 0

\* every non-zero address of the piece has a page
Paged(t) ==
  LET m == PatternMatch(PatternOf(t), t)
  IN \A g \in 1..Len(m.ptrs) :
        AddressOfBytes(m.ptrs[g]) = Zero \/ AddressOfBytes(m.ptrs[g]) \in DOMAIN dataFiles

\* the bracket form of a pointer operator
BracketForm(t) ==
  LET m == PatternMatch(PatternOf(t), t)
      ref == [g \in 1..Len(m.ptrs) |->
                IF AddressOfBytes(m.ptrs[g]) = Zero THEN ZeroRef
                ELSE [page |-> dataFiles[AddressOfBytes(m.ptrs[g])],
                      address |-> AddressOfBytes(m.ptrs[g])]]
  IN IF m.single /\ AddressOfBytes(m.ptrs[1]) = Zero THEN t
     ELSE [k |-> "ref", b |-> m.prefix, refs |-> ref, tail |-> m.tail]

\* C10, amended: in raw mode there is no expansion of compressed text and no
\* macro, but the labels are substituted: the output is the decoded text in
\* double quotes where every operator that matches a pattern is in bracket
\* form, its non-zero addresses written as labels and never as goto or
\* call; the operators of a pattern stay as raw bytes only if a non-zero
\* address of one of them in the block has no page.
C10_RawLabelsOnly ==
  [][RawStep =>
       LET old == dialogue[order[procIdx]].block
           Stays(t) == \/ PatternOf(t) = 0
                       \/ \E k \in 1..Len(old) :
                            PatternOf(old[k]) = PatternOf(t) /\ ~Paged(old[k])
       IN dialogue'[order[procIdx]].block =
            <<Quote>> \o [k \in 1..Len(old) |->
                            IF Stays(old[k]) THEN old[k] ELSE BracketForm(old[k])]
                      \o <<Quote>>]_vars

\* C10 witness: raw mode is done with a block map that holds a compressed
\* piece as its bytes, a pointer operator in bracket form with a label, and
\* a pointer operator left as bytes because its address has no page
C10_Witness ==
  /\ raw /\ pc = "done"
  /\ \E a \in DOMAIN dialogue : \E k \in 1..Len(dialogue[a].block) :
        dialogue[a].block[k] = Op(<<21, 0>>)
  /\ \E a \in DOMAIN dialogue : \E k \in 1..Len(dialogue[a].block) :
        /\ dialogue[a].block[k].k = "ref"
        /\ dialogue[a].block[k].b \in {<<8>>, <<10>>}
  /\ \E a \in DOMAIN dialogue : \E k \in 1..Len(dialogue[a].block) :
        /\ PatternOf(dialogue[a].block[k]) # 0
        /\ ~Paged(dialogue[a].block[k])

\* the piece is a pointer operator still in raw bytes with a non-zero address
RawReference(t) ==
  /\ PatternOf(t) # 0
  /\ \E g \in 1..Len(PatternMatch(PatternOf(t), t).ptrs) :
        AddressOfBytes(PatternMatch(PatternOf(t), t).ptrs[g]) # Zero

\* C11: a run that reaches the end of processDialogue has rewritten every
\* non-zero address of every pointer operator of every block as a label: no
\* block of the finished run holds a pointer operator with a non-zero
\* address in raw bytes (an address without a page aborts the run).
C11_NoRawReference ==
  pc = "done" =>
    \A a \in DOMAIN dialogue : \A k \in 1..Len(dialogue[a].block) :
       ~RawReference(dialogue[a].block[k])

(***************************************************************************)
(* SpecPages: the same program on an image of MaxBlocks - 3 or             *)
(* MaxBlocks - 2 one-byte blocks after a first block of three bytes, which *)
(* the address at the special site splits.                                 *)
(***************************************************************************)
MaxBlocks == 251

InitPages ==
  /\ \E n \in {MaxBlocks - 3, MaxBlocks - 2}, k \in {1, 2} :
       /\ data = <<113, 113, 2>> \o [j \in 1..n |-> 2] \o Sites(BlockAddress(k), n + 3)
       /\ sections = <<<<0, n + 3, 0>>>>
  /\ raw \in BOOLEAN
  /\ splitjumps = FALSE
  /\ StartLoad

SpecPages == InitPages /\ [][Next]_vars

(***************************************************************************)
(* SpecSNES: ToSNES and FromSNES on sampled addresses.                     *)
(***************************************************************************)
SampleBytes == {0, 1, 13, 16, 202, 240, 254, 255}

ToLower(s) ==
  [k \in 1..Len(s) |->
     IF \E d \in 1..16 : HexUpper[d] = s[k]
     THEN HexLower[CHOOSE d \in 1..16 : HexUpper[d] = s[k]]
     ELSE s[k]]

InitSNES ==
  /\ ProgIdle /\ data = <<>> /\ splitjumps = FALSE
  /\ \E b0 \in SampleBytes, b1 \in SampleBytes, b2 \in SampleBytes, b3 \in SampleBytes :
       unit = [fn |-> "arg", bytes |-> <<b0, b1, b2, b3>>,
               hexNum |-> <<b3 * 256 + b2, b1 * 256 + b0>>]

CallToSNES ==
  /\ unit.fn = "arg"
  /\ unit' = [fn |-> "ToSNES", bytes |-> unit.bytes, hexNum |-> unit.hexNum,
              snes |-> ToSNES(unit.hexNum)]
  /\ UNCHANGED <<data, splitjumps, progVars>>

\* FromSNES on the text as formatted, in lower case, or with the leading
\* blank of the texts loadDialogue builds
CallFromSNES ==
  /\ unit.fn = "ToSNES"
  /\ \E form \in {"upper", "lower", "blank"} :
       unit' = [fn |-> "FromSNES", bytes |-> unit.bytes, hexNum |-> unit.hexNum,
                snes |-> unit.snes, form |-> form,
                address |-> FromSNES(IF form = "lower" THEN ToLower(unit.snes)
                                     ELSE IF form = "blank" THEN <<" ">> \o unit.snes
                                     ELSE unit.snes)]
  /\ UNCHANGED <<data, splitjumps, progVars>>

NextSNES == CallToSNES \/ CallFromSNES

SpecSNES == InitSNES /\ [][NextSNES]_vars

\* C4: FromSNES(ToSNES(A)) = A for every sampled address A in [0, 0xFFFFFFFF];
\* ToSNES(A) is the four two-digit bytes of A, least significant first,
\* separated by single blanks ("00 00 00 00" for A = 0, never empty); FromSNES
\* accepts both cases of the hex digits.
C4_RoundTrip ==
  /\ unit.fn \in {"ToSNES", "FromSNES"} =>
       /\ unit.snes = JoinSpace([k \in 1..4 |-> FormatHex(unit.bytes[k])])
       /\ Len(unit.snes) = 11
       /\ unit.hexNum = Zero =>
            unit.snes = <<"0","0"," ","0","0"," ","0","0"," ","0","0">>
  /\ unit.fn = "FromSNES" => unit.address = unit.hexNum

\* C4 witness: a round trip through the lower-case text of 0xCAFEF00D has been made
C4_Witness ==
  /\ unit.fn = "FromSNES" /\ unit.form = "lower"
  /\ unit.bytes = <<13, 240, 254, 202>>
  /\ unit.address = <<51966, 61453>>

\* the byte-level helpers agree with the text-level functions
SNESBytesAgree ==
  unit.fn = "ToSNES" =>
     /\ AddressOfBytes(unit.bytes) = FromSNES(HexText(unit.bytes))
     /\ <<" ">> \o ToSNES(unit.hexNum) = HexText(BytesOfAddress(unit.hexNum))

(***************************************************************************)
(* SpecLength: getLength on every variable-length opcode and sub-opcode.   *)
(***************************************************************************)
VariableOpcodes == {c \in 0..48 : CONTROL_CODES[c + 1] = None}

InitLength ==
  /\ ProgIdle /\ splitjumps = FALSE
  /\ \E c \in VariableOpcodes, sub \in 0..255, count \in 0..2 : data = <<c, sub, count>>
  /\ unit = [fn |-> "arg"]

CallGetLength ==
  /\ unit.fn = "arg"
  /\ unit' = [fn |-> "getLength", ret |-> getLength(data, 1)]
  /\ UNCHANGED <<data, splitjumps, progVars>>

NextLength == CallGetLength

SpecLength == InitLength /\ [][NextLength]_vars

\* the sub-opcodes the table of each opcode lists
ListedSubOpcodes(c) ==
  IF c = 31 THEN DOMAIN Combos1F
  ELSE IF c = 24 THEN DOMAIN Combos18
  ELSE IF c = 25 THEN DOMAIN Combos19
  ELSE IF c = 26 THEN DOMAIN Combos1A
  ELSE IF c = 28 THEN DOMAIN Combos1C
  ELSE IF c = 29 THEN DOMAIN Combos1D
  ELSE 0..255

\* C9: getLength never raises: for every variable-length opcode and every
\* sub-opcode byte it returns a non-negative integer, and 0 for every
\* combination absent from the table (such as 1F 08).
C9_NeverRaises ==
  unit.fn = "getLength" =>
     /\ unit.ret.err = "ok"
     /\ unit.ret.n >= 0
     /\ data[2] \notin ListedSubOpcodes(data[1]) => unit.ret.n = 0

(***************************************************************************)
(* SpecDecode: single calls of getText on images put together from a       *)
(* leading part, one operator or character, and a trailing part.           *)
(***************************************************************************)
Filler == <<1, 2, 3, 4, 5, 6>>

FixedOperators ==
  {<<c>> \o SubSeq(Filler, 1, CONTROL_CODES[c + 1]) :
     c \in {c \in 0..48 : CONTROL_CODES[c + 1] # None}}

VariableOperators ==
  {<<9, 0>>, <<9, 1, 1, 2, 3, 4>>, <<24, 0>>, <<24, 14>>, <<25, 2>>, <<25, 4>>,
   <<26, 4>>, <<27, 0>>, <<27, 2, 1, 2, 3, 4>>, <<27, 3, 1, 2, 3, 4>>,
   <<28, 4>>, <<29, 32>>, <<30, 0, 1, 2>>, <<31, 2, 1>>, <<31, 8>>,
   <<31, 99, 1, 2, 3, 4>>, <<31, 192, 0>>, <<31, 192, 1, 1, 2, 3, 4>>}

Characters == {<<80>>, <<82>>, <<139>>, <<255>>}

Leading == {<<>>, <<25, 2>>, <<80>>}
Middle == FixedOperators \cup VariableOperators \cup Characters
Trailing == {<<>>, <<2>>, <<80, 2>>, <<2, 80, 2>>, <<10, 1, 2, 3, 4>>}

InitDecode ==
  /\ ProgIdle
  /\ \E l \in Leading, m \in Middle, t \in Trailing : data = l \o m \o t
  /\ splitjumps \in BOOLEAN
  /\ \E start \in 0..1, stop \in {None} \cup 1..Len(data), dataType \in 0..2 :
       /\ stop = None \/ start < stop
       /\ dataType # 0 => start = 0 /\ ~splitjumps /\ data[1] \notin {25}
       /\ unit = [fn |-> "arg", start |-> start, stop |-> stop, dataType |-> dataType]

CallGetText ==
  /\ unit.fn = "arg"
  /\ unit' = [fn |-> "getText", start |-> unit.start, stop |-> unit.stop,
              dataType |-> unit.dataType,
              ret |-> getText(data, unit.start, unit.stop, unit.dataType, splitjumps)]
  /\ UNCHANGED <<data, splitjumps, progVars>>

NextDecode == CallGetText

SpecDecode == InitDecode /\ [][NextDecode]_vars

\* a Normal call that returned
NormalReturned ==
  unit.fn = "getText" /\ unit.dataType = 0 /\ unit.ret.err = "ok"

\* the branch operators of the specification text
BranchPiece(t) ==
  /\ t.k = "op"
  /\ \/ t.b[1] \in {6, 9}
     \/ Len(t.b) >= 2 /\ t.b[1] = 27 /\ t.b[2] \in {2, 3}
     \/ Len(t.b) >= 2 /\ t.b[1] = 31 /\ t.b[2] = 192

\* C6: a fixed-length opcode c <= 0x30 with n operand bytes yields one
\* operator piece with exactly n operand bytes and the read position moves by
\* 1 + n; 0A 01 02 03 04 decodes to the single piece [0A 01 02 03 04] with
\* consumed length 5; 0x0A ends the block whatever the expect-02 flag.
C6_FixedOpcode ==
  NormalReturned /\ unit.stop = None =>
    LET s == unit.start
        c == data[s + 1]
        blk == unit.ret.block
    IN /\ \A n \in 0..6 :
            (c <= 48 /\ CONTROL_CODES[c + 1] = n) =>
               /\ blk[1] = Op(SubSeq(data, s + 1, s + 1 + n))
               /\ Len(blk[1].b) = n + 1
               /\ (Len(blk) >= 2) =>
                    (blk[2].b[1] = (IF blk[2].k = "ch" THEN data[s + n + 2] - 48
                                    ELSE data[s + n + 2]))
               /\ (Len(blk) = 1) => (unit.ret.i = s + 1 + n)
       /\ (Len(data) >= s + 5 /\ SubSeq(data, s + 1, s + 5) = <<10, 1, 2, 3, 4>>) =>
            /\ blk = <<Op(<<10, 1, 2, 3, 4>>)>>
            /\ unit.ret.length = 5
       /\ \A k \in 1..Len(blk) :
            (blk[k].k = "op" /\ blk[k].b[1] = 10) => k = Len(blk)

\* C6 witness: [19 02] set the flag and the following [0A 01 02 03 04] still
\* ended the block
C6_Witness ==
  /\ NormalReturned /\ unit.start = 0 /\ unit.stop = None
  /\ Len(data) > 7
  /\ SubSeq(data, 1, 7) = <<25, 2, 10, 1, 2, 3, 4>>
  /\ unit.ret.block = <<Op(<<25, 2>>), Op(<<10, 1, 2, 3, 4>>)>>
  /\ unit.ret.length = 7

\* C7: with split-on-branch a branch operator (06; 09; 1B 02; 1B 03; 1F C0)
\* is always the last piece of the block; 06 with its six operand bytes is a
\* block of one piece and seven bytes; with the policy off a branch operator
\* does not end the block (a block that ends on one ended at the stop offset).
C7_BranchSplit ==
  NormalReturned =>
    LET blk == unit.ret.block
    IN /\ splitjumps =>
            /\ \A k \in 1..Len(blk) : BranchPiece(blk[k]) => k = Len(blk)
            /\ (data[unit.start + 1] = 6 /\ (unit.stop = None \/ unit.stop >= unit.start + 7)) =>
                 /\ blk = <<Op(SubSeq(data, unit.start + 1, unit.start + 7))>>
                 /\ unit.ret.length = 7
       /\ (~splitjumps /\ blk # <<>> /\ BranchPiece(blk[Len(blk)])) =>
            (unit.ret.i = unit.stop)

\* C7 witness: with the policy on, [06 ..] ended a block although bytes that
\* are no terminator followed
C7_Witness ==
  /\ NormalReturned /\ splitjumps /\ unit.stop = None /\ unit.start = 0
  /\ data = <<6, 1, 2, 3, 4, 5, 6, 80, 2>>
  /\ unit.ret.block = <<Op(<<6, 1, 2, 3, 4, 5, 6>>)>>
  /\ unit.ret.length = 7

\* C8: getText with a stop offset never decodes a byte at or beyond the stop:
\* the end position is at most stop and the consumed length at most
\* stop - start; the end position is start plus the consumed length.
C8_StopRespected ==
  (unit.fn = "getText" /\ unit.ret.err = "ok" /\ unit.stop # None) =>
     /\ unit.ret.i <= unit.stop
     /\ unit.ret.length <= unit.stop - unit.start
     /\ unit.ret.i = unit.start + unit.ret.length

(***************************************************************************)
(* The text of a block as a string of characters, for the expressions of   *)
(* processDialogue that read the characters themselves.  A character is a  *)
(* one-character string; the name of a macro or of a template is written   *)
(* as one element.                                                         *)
(***************************************************************************)
\* the printable characters chr(32) .. chr(126), but for the grave accent
\* chr(96), which no modelled text holds
Ascii ==
  <<" ", "!", "\"", "#", "$", "%", "&", "'", "(", ")", "*", "+", ",", "-",
    ".", "/", "0", "1", "2", "3", "4", "5", "6", "7", "8", "9", ":", ";",
    "<", "=", ">", "?", "@", "A", "B", "C", "D", "E", "F", "G", "H", "I",
    "J", "K", "L", "M", "N", "O", "P", "Q", "R", "S", "T", "U", "V", "W",
    "X", "Y", "Z", "[", "\\", "]", "^", "_", "a", "b", "c", "d", "e",
    "f", "g", "h", "i", "j", "k", "l", "m", "n", "o", "p", "q", "r", "s",
    "t", "u", "v", "w", "x", "y", "z", "{", "|", "}", "~">>

\* chr(code) for a line feed or one of these characters
Chr(code) == IF code = 10 THEN "\n"
             ELSE IF code < 96 THEN Ascii[code - 31] ELSE Ascii[code - 32]

\* \w and . of the expressions, among these characters
WordChars == {Chr(c) : c \in (48..57) \cup (65..90) \cup (97..122) \cup {95}}
AnyChar == Range(Ascii)
HexChars == Range(HexUpper) \cup Range(HexLower)

\* str(n) of a non-negative integer
RECURSIVE Decimal(_)
Decimal(n) == IF n < 10 THEN <<HexUpper[n + 1]>>
              ELSE Decimal(n \div 10) \o <<HexUpper[(n % 10) + 1]>>

\* hex(n) without the "0x"
RECURSIVE LowerHex(_)
LowerHex(n) == IF n < 16 THEN <<HexLower[n + 1]>>
               ELSE LowerHex(n \div 16) \o <<HexLower[(n % 16) + 1]>>

\* hex(address) of an address <<hi, lo>>
HexOfAddress(a) ==
  <<"0", "x">> \o (IF a[1] = 0 THEN LowerHex(a[2])
                   ELSE LowerHex(a[1]) \o <<HexLower[(a[2] \div 4096) + 1],
                                             HexLower[((a[2] \div 256) % 16) + 1],
                                             HexLower[((a[2] \div 16) % 16) + 1],
                                             HexLower[(a[2] % 16) + 1]>>)

\* "data_{0:0>2}".format(page), ".l_", hex(address)
LabelText(label) ==
  <<"d", "a", "t", "a", "_">>
    \o (IF label.page < 10 THEN <<"0">> ELSE <<>>) \o Decimal(label.page)
    \o <<".", "l", "_">> \o HexOfAddress(label.address)

\* one element of a reference: " 00 00 00 00" or " {e(label)}"
RefText(r) ==
  IF r = ZeroRef THEN HexText(<<0, 0, 0, 0>>)
  ELSE <<" ", "{", "e", "(">> \o LabelText(r) \o <<")", "}">>

\* the string a piece of getText or of REPLACE stands for
TextOf(t) ==
  IF t.k = "op" THEN <<"[">> \o JoinSpace([k \in 1..Len(t.b) |-> FormatHex(t.b[k])]) \o <<"]">>
  ELSE IF t.k = "ch" THEN <<Chr(t.b[1])>>
  ELSE IF t.k \in {"cf", "st"} THEN <<"[">> \o HexText(t.b) \o <<" ", "]">>
  ELSE IF t.k = "sc" THEN <<" ", "]", "[">> \o HexText(t.b) \o <<" ", "]">>
  ELSE IF t.k = "so" THEN <<"[">>
  ELSE IF t.k = "sx" THEN HexText(t.b)
  ELSE IF t.k = "nl" THEN <<"\"", "\n", "\"">>
  ELSE IF t.k = "q" THEN <<"\"">>
  ELSE IF t.k = "cmd" THEN <<t.w, "(">> \o LabelText(t.label) \o <<")">>
  ELSE IF t.k = "ref"
  THEN <<"[">> \o JoinSpace([k \in 1..Len(t.b) |-> FormatHex(t.b[k])])
         \o Flatten([g \in 1..Len(t.refs) |-> RefText(t.refs[g])])
         \o HexText(t.tail) \o <<"]">>
  ELSE IF t.k = "w" THEN <<t.w>>
  ELSE <<"{", t.w, "}">>                       \* a macro of REPLACE

TextOfAll(b) == Flatten([k \in 1..Len(b) |-> TextOf(b[k])])

\* an expression is a list of alternatives of fixed length, tried in
\* order: pat holds, for every position, the set of characters it accepts;
\* g1 and g2 are the first and last position of group 1 and group 2
Lit(s) == [k \in 1..Len(s) |-> {s[k]}]

MatchAt(pat, s) == Len(pat) <= Len(s) /\ \A k \in 1..Len(pat) : s[k] \in pat[k]

\* an alternative of RE_REPLACE: "[", group 1, group 2 = nargs times " \w\w", "]"
ReAlternative(head, nargs) ==
  [pat |-> <<{"["}>> \o head
             \o Flatten([k \in 1..nargs |-> <<{" "}, WordChars, WordChars>>]) \o <<{"]"}>>,
   g1 |-> <<2, 1 + Len(head)>>,
   g2 |-> <<2 + Len(head), 1 + Len(head) + 3 * nargs>>,
   cmd |-> ""]

\* lines 87-89: the three expressions, character by character
ReExpressions ==
  <<<<ReAlternative(<<{"0"}, {"4", "|", "5", "7"}>>, 2)>>,
    <<ReAlternative(Lit(<<"1", "0">>), 1),
      ReAlternative(Lit(<<"1", "8", " ", "0", "1">>), 1),
      ReAlternative(Lit(<<"1", "8", " ", "0", "3">>), 1),
      ReAlternative(Lit(<<"0", "E">>), 1),
      ReAlternative(Lit(<<"0", "B">>), 1),
      ReAlternative(Lit(<<"0", "C">>), 1)>>,
    <<ReAlternative(Lit(<<"1", "F", " ", "0", "2">>), 1),
      ReAlternative(Lit(<<"1", "F", " ", "0", "0", " ", "0", "0">>), 1),
      ReAlternative(Lit(<<"1", "F", " ", "0", "7", "]">>), 1)>>>>

\* lines 90-103: the text of each template before its "{}"
RE_REPLACE_TARGETS ==
  (<<"0", "4">> :> <<"{", "set", "(", "flag", " ">>) @@
  (<<"0", "5">> :> <<"{", "unset", "(", "flag", " ">>) @@
  (<<"0", "7">> :> <<"{", "isset", "(", "flag", " ">>) @@
  (<<"1", "0">> :> <<"{", "pause", "(">>) @@
  (<<"1", "8", " ", "0", "1">> :> <<"{", "window_open", "(">>) @@
  (<<"1", "8", " ", "0", "3">> :> <<"{", "window_switch", "(">>) @@
  (<<"0", "E">> :> <<"{", "counter", "(">>) @@
  (<<"0", "B">> :> <<"{", "result_is", "(">>) @@
  (<<"0", "C">> :> <<"{", "result_not", "(">>) @@
  (<<"1", "F", " ", "0", "2">> :> <<"{", "sound", "(">>) @@
  (<<"1", "F", " ", "0", "0", " ", "0", "0">> :> <<"{", "music", "(">>) @@
  (<<"1", "F", " ", "0", "7">> :> <<"{", "music_effect", "(">>)

\* int(word, 16) accepts the word (no modelled text holds an underscore)
IsHex(word) == word # <<>> /\ \A k \in 1..Len(word) : word[k] \in HexChars

\* replaceWithCCScript on the groups of a match, lines 856-860
replaceWithCCScriptText(cc, arg) ==
  IF \E k \in 1..Len(SplitBlank(arg, <<>>)) : ~IsHex(SplitBlank(arg, <<>>)[k])
  THEN Result("ValueError", <<>>)
  ELSE IF cc \notin DOMAIN RE_REPLACE_TARGETS THEN Result("AssertionError", <<>>)
  ELSE Result("ok", RE_REPLACE_TARGETS[cc] \o Decimal(FromSNES(arg)[2]) \o <<")", "}">>)

\* grey_replaceByteArgs on the characters of group 1, lines 203-223
grey_replaceByteArgsText(byteArgs, ccScriptCommand) ==
  LET bArgs == SplitBlank(byteArgs, <<>>)
      Join(k) == (IF k > 1 THEN <<",", " ">> ELSE <<>>) \o Decimal(HexValue(bArgs[k]))
  IN IF \E k \in 1..Len(bArgs) : ~IsHex(bArgs[k]) THEN Result("ValueError", <<>>)
     ELSE Result("ok", <<"{", ccScriptCommand, "(">>
                         \o Flatten([k \in 1..Len(bArgs) |-> Join(k)]) \o <<")", "}">>)

\* re.sub(expression, callback, s): the matches from left to right, the
\* first exception of the callback ends it
RECURSIVE ReSub(_, _, _)
ReSub(alts, s, out) ==
  IF s = <<>> THEN Result("ok", out)
  ELSE LET hits == {a \in 1..Len(alts) : MatchAt(alts[a].pat, s)}
       IN IF hits = {} THEN ReSub(alts, Tail(s), Append(out, Head(s)))
          ELSE LET alt == alts[CHOOSE a \in hits : \A h \in hits : a <= h]
                   group1 == SubSeq(s, alt.g1[1], alt.g1[2])
                   r == IF alt.cmd = ""
                        THEN replaceWithCCScriptText(group1, SubSeq(s, alt.g2[1], alt.g2[2]))
                        ELSE grey_replaceByteArgsText(group1, alt.cmd)
               IN IF r.err # "ok" THEN Result(r.err, out)
                  ELSE ReSub(alts, SubSeq(s, Len(alt.pat) + 1, Len(s)), out \o r.out)

\* the expression of row g of GREY_BYTE_REPLACEMENTS: "[", the bytes before
\* the group, ".." or ".. ..", the bytes after it, "]"
GreyAlternative(g) ==
  LET row == GREY_BYTE_REPLACEMENTS[g]
      lead == <<"[">> \o JoinSpace([k \in 1..Len(row[2]) |-> FormatHex(row[2][k])]) \o <<" ">>
      dots == IF row[3] = 1 THEN <<AnyChar, AnyChar>>
              ELSE <<AnyChar, AnyChar, {" "}, AnyChar, AnyChar>>
  IN [pat |-> Lit(lead) \o dots \o Lit(HexText(row[4]) \o <<"]">>),
      g1 |-> <<Len(lead) + 1, Len(lead) + Len(dots)>>,
      g2 |-> <<0, 0>>,
      cmd |-> row[1]]

\* lines 300-301: the rows first..last of GREY_BYTE_REPLACEMENTS in order,
\* the first half, then the second half on its result
RECURSIVE GreyRowsText(_, _, _)
GreyRowsText(s, first, last) ==
  IF first = last THEN ReSub(<<GreyAlternative(first)>>, s, <<>>)
  ELSE LET half == GreyRowsText(s, first, (first + last) \div 2)
       IN IF half.err # "ok" THEN half
          ELSE GreyRowsText(half.out, (first + last) \div 2 + 1, last)

\* grey_replace_all on a string
grey_replace_allText(s) == GreyRowsText(s, 1, Len(GREY_BYTE_REPLACEMENTS))

\* lines 495-496 on a string: the rows first..last of REPLACE in order
RECURSIVE ReplaceRowsText(_, _, _)
ReplaceRowsText(s, first, last) ==
  IF first = last
  THEN StrReplace(s, TextOfAll(REPLACE[first][1]), TextOfAll(REPLACE[first][2]))
  ELSE LET half == ReplaceRowsText(s, first, (first + last) \div 2)
       IN IF half = <<>> THEN <<>>
          ELSE ReplaceRowsText(half, (first + last) \div 2 + 1, last)

\* lines 497-498 on a string: the expressions of RE_REPLACE in order
RECURSIVE ReReplaceText(_, _)
ReReplaceText(s, r) ==
  IF r > Len(ReExpressions) THEN Result("ok", s)
  ELSE LET one == ReSub(ReExpressions[r], s, <<>>)
       IN IF one.err # "ok" THEN one ELSE ReReplaceText(one.out, r + 1)

\* lines 495-499 on a string: REPLACE, RE_REPLACE, grey_replace_all
ReplaceControlCodesText(s) ==
  LET b2 == ReReplaceText(ReplaceRowsText(s, 1, Len(REPLACE)), 1)
  IN IF b2.err # "ok" THEN b2 ELSE grey_replace_allText(b2.out)

(***************************************************************************)
(* SpecMacro: one block is decoded by getText and its string goes through  *)
(* grey_replace_all alone, or through the macro passes of processDialogue  *)
(* in their order.  The blocks are a Normal block of one operator and      *)
(* [02], or a coffee block whose characters spell a bracketed group.       *)
(***************************************************************************)
SoundOperators == {<<31, 2, v>> : v \in 0..255}

MacroOperators ==
  {<<4, 1, 2>>, <<5, 0, 1>>, <<7, 255, 0>>, <<16, 10>>, <<24, 1, 1>>, <<24, 3, 2>>,
   <<14, 3>>, <<11, 4>>, <<12, 5>>, <<31, 0, 0, 7>>, <<31, 7, 9>>, <<28, 5, 1, 0>>,
   <<31, 235, 1, 6>>, <<15>>}

CoffeeTexts ==
  {<<"[", "0", "|", " ", "0", "0", " ", "0", "0", "]">>,
   <<"[", "1", "F", " ", "0", "7", "]", " ", "0", "0", "]">>,
   <<"[", "0", "4", " ", "0", "1", " ", "0", "0", "]">>,
   <<"A", "B">>}

\* ord(ch)
Ord(ch) == CHOOSE c \in (32..126) \ {96} : Chr(c) = ch

InitMacro ==
  /\ ProgIdle /\ splitjumps = FALSE
  /\ \/ /\ \E op \in SoundOperators \cup MacroOperators : data = op \o <<2>>
        /\ unit = [fn |-> "arg", dataType |-> 0]
     \/ /\ \E text \in CoffeeTexts : data = [k \in 1..Len(text) |-> Ord(text[k]) + 48] \o <<0>>
        /\ unit = [fn |-> "arg", dataType |-> 1]

\* the string of the block at offset 0
ReadBlock ==
  /\ unit.fn = "arg"
  /\ LET r == getText(data, 0, None, unit.dataType, splitjumps)
     IN /\ r.err = "ok"
        /\ unit' = [fn |-> "text", dataType |-> unit.dataType, text |-> TextOfAll(r.block)]
  /\ UNCHANGED <<data, splitjumps, progVars>>

CallGreyReplaceAll ==
  /\ unit.fn = "text"
  /\ unit' = [fn |-> "grey_replace_all", dataType |-> unit.dataType, text |-> unit.text,
              ret |-> grey_replace_allText(unit.text)]
  /\ UNCHANGED <<data, splitjumps, progVars>>

CallReplaceControlCodes ==
  /\ unit.fn = "text"
  /\ unit' = [fn |-> "passes", dataType |-> unit.dataType, text |-> unit.text,
              ret |-> ReplaceControlCodesText(unit.text)]
  /\ UNCHANGED <<data, splitjumps, progVars>>

NextMacro == ReadBlock \/ CallGreyReplaceAll \/ CallReplaceControlCodes

SpecMacro == InitMacro /\ [][NextMacro]_vars

\* the digits of a byte value, written out
ByteDigits(v) ==
  IF v < 10 THEN <<HexUpper[v + 1]>>
  ELSE IF v < 100 THEN <<HexUpper[(v \div 10) + 1], HexUpper[(v % 10) + 1]>>
  ELSE <<HexUpper[(v \div 100) + 1], HexUpper[((v \div 10) % 10) + 1], HexUpper[(v % 10) + 1]>>

\* C12: for every byte value v the token "[1F 02 vv]" becomes "{sound(v)}",
\* v in decimal, both by grey_replace_all alone and by the macro passes in
\* their order ("[1F 02 01]" gives "{sound(1)}"); and the assertion of
\* replaceWithCCScript never fails, every group 1 that RE_REPLACE matches
\* having a template.
C12_SoundDecimal ==
  unit.fn \in {"grey_replace_all", "passes"} =>
     /\ SubSeq(data, 1, 2) = <<31, 2>> =>
          /\ unit.text = <<"[", "1", "F", " ", "0", "2", " ">> \o FormatHex(data[3])
                            \o <<"]", "[", "0", "2", "]">>
          /\ unit.ret.err = "ok"
          /\ unit.ret.out = <<"{", "sound", "(">> \o ByteDigits(data[3])
                               \o <<")", "}", "[", "0", "2", "]">>
     /\ data = <<31, 2, 1, 2>> =>
          unit.ret.out = <<"{", "sound", "(", "1", ")", "}", "[", "0", "2", "]">>
     /\ unit.ret.err # "AssertionError"

\* C14: when the resolution step of loadDialogue has finished, every non-zero
\* address the extractor appended to self.pointers while the resolver decoded
\* the blocks of its splits is the start of a block: the discoveries were
\* resolved, to a fixed point.
C14_FixedPoint ==
  pc \in {"assign", "sites", "process", "done"} =>
    \A k \in 1..Len(pointers) :
       pointers[k] # Zero => pointers[k] \in DOMAIN dialogue

\* the byte at the offset lies in the range [b, b + length) of a block of d
Covered(d, offset) ==
  \E b \in DOMAIN d : OffsetOf(b) <= offset /\ offset < OffsetOf(b) + d[b].length

\* C19: after loadDialogue, every byte that lay in the range [A, A + L) of a
\* block after the initial region decode lies in the range of a final block;
\* so do the bytes after the absorbed [02] of a block with [19 02] that was
\* split between the two.
C19_CoverageKept ==
  LoadDone =>
    \A a \in DOMAIN initial :
       \A offset \in OffsetOf(a)..(OffsetOf(a) + initial[a].length - 1) :
          Covered(dialogue, offset)

(***************************************************************************)
(* SpecClosest: single calls of FindClosest on the keys of a dictionary in *)
(* every insertion order, and runs of the program on small images whose    *)
(* special site holds an address inside the text or below every block.     *)
(***************************************************************************)
SampleKeys == {<<0, 10>>, <<0, 20>>, <<0, 30>>, <<192, 0>>}

SampleSearchKeys ==
  {<<0, 9>>, <<0, 15>>, <<0, 19>>, <<0, 20>>, <<0, 21>>, <<0, 10000>>,
   <<191, 65535>>, <<192, 0>>}

\* the lists of distinct keys, in every order
KeyLists ==
  {list \in UNION {[1..n -> SampleKeys] : n \in 0..Cardinality(SampleKeys)} :
     \A j \in 1..Len(list), k \in 1..Len(list) : list[j] = list[k] => j = k}

InitClosest ==
  \/ /\ ProgIdle /\ data = <<>> /\ splitjumps = FALSE
     /\ \E dictionary \in KeyLists, searchKey \in SampleSearchKeys :
          unit = [fn |-> "arg", dictionary |-> dictionary, searchKey |-> searchKey]
  \/ /\ \E special \in {<<0, 5>>, <<191, 65535>>, BlockAddress(1), BlockAddress(3)} :
          data = <<113, 113, 2, 113, 2>> \o Sites(special, 5)
     /\ sections = <<<<0, 5, 0>>>>
     /\ raw \in BOOLEAN
     /\ splitjumps = FALSE
     /\ StartLoad

CallFindClosest ==
  /\ unit.fn = "arg"
  /\ unit' = [fn |-> "FindClosest", dictionary |-> unit.dictionary,
              searchKey |-> unit.searchKey,
              ret |-> FindClosest(unit.dictionary, unit.searchKey)]
  /\ UNCHANGED <<data, splitjumps, progVars>>

NextClosest == CallFindClosest \/ Next

SpecClosest == InitClosest /\ [][NextClosest]_vars

\* the call returned the greatest key that is at most the search key, or
\* None if there is none, and the same for the keys in reverse order
ClosestIsGreatestBelow ==
  unit.fn = "FindClosest" =>
    LET below == {k \in Range(unit.dictionary) : AddrLeq(k, unit.searchKey)}
    IN /\ below = {} => unit.ret = NoAddress
       /\ below # {} => unit.ret \in below /\ \A k \in below : AddrLeq(k, unit.ret)
       /\ unit.ret = FindClosest(Reverse(unit.dictionary), unit.searchKey)

\* a round of the resolver that finds no block at or below the pointer ends
\* the run with the assertion and changes no block
NoneIsFatal ==
  (pc = "resolve" /\ FindClosest(order, Head(pending)) = NoAddress) =>
     (pc' = "aborted" /\ err' = "AssertionError" /\ dialogue' = dialogue /\ order' = order)

\* C13: FindClosest(keys, k) is the greatest key <= k and None when every
\* key is greater than k or there is no key, whatever the order of the
\* keys; in the resolver a None result ends the run (assertion) and is not
\* skipped.
C13_FindClosest == []ClosestIsGreatestBelow /\ [][NoneIsFatal]_vars

\* C13 witness: FindClosest of the keys 30, 10, 20 and the search key 21 gave 20
C13_Witness ==
  /\ unit.fn = "FindClosest"
  /\ unit.dictionary = <<<<0, 30>>, <<0, 10>>, <<0, 20>>>>
  /\ unit.searchKey = <<0, 21>>
  /\ unit.ret = <<0, 20>>

(***************************************************************************)
(* SpecTerminator: single calls of getText for normal text on images put   *)
(* together from whole tokens, followed by two bytes 02.                   *)
(***************************************************************************)
Expect02 == <<25, 2>>
End02 == <<2>>

\* the tokens: [19 02], [02], [0A ..], a character, two operators whose
\* operand bytes are 0A 02 and 19 02, and a branch operator with operand
\* bytes 02 and 0A
TokenSamples ==
  {Expect02, End02, <<10, 1, 2, 3, 4>>, <<80>>, <<4, 10, 2>>, <<4, 25, 2>>,
   <<6, 2, 10, 2, 10, 2, 10>>}

MaxTokens == 4

InitTerminator ==
  /\ ProgIdle
  /\ splitjumps \in BOOLEAN
  /\ \E n \in 0..MaxTokens : \E tokens \in [1..n -> TokenSamples] :
       /\ data = Flatten(tokens) \o End02 \o End02
       /\ unit = [fn |-> "arg", tokens |-> tokens \o <<End02, End02>>]

DecodeTokens ==
  /\ unit.fn = "arg"
  /\ unit' = [fn |-> "getText", tokens |-> unit.tokens,
              ret |-> getText(data, 0, None, 0, splitjumps)]
  /\ UNCHANGED <<data, splitjumps, progVars>>

NextTerminator == DecodeTokens

SpecTerminator == InitTerminator /\ [][NextTerminator]_vars

\* the piece a token decodes to
PieceOf(token) == IF token[1] > 48 THEN Ch(token[1] - 48) ELSE Op(token)

\* an operator [19 02] came before token k and no [02] came between the two
Armed(tokens, k) ==
  \E j \in 1..(k - 1) :
     /\ tokens[j] = Expect02
     /\ \A m \in (j + 1)..(k - 1) : tokens[m] # End02

\* token k ends the block
Ends(tokens, k) ==
  \/ tokens[k] = End02 /\ ~Armed(tokens, k)
  \/ tokens[k][1] = 10
  \/ splitjumps /\ tokens[k][1] = 6

\* C15: at a token boundary the operators 02 and 0A end the block, except
\* that after an operator [19 02] exactly one later [02] is absorbed as a
\* piece of the block and the next [02] ends it, however many [19 02] came
\* before the absorbed [02]; bytes 02 and 0A (and 19 02) that are operand
\* bytes of another operator neither end the block nor set the expectation.
C15_TerminatorRule ==
  unit.fn = "getText" =>
    LET tokens == unit.tokens
        last == CHOOSE k \in 1..Len(tokens) :
                   Ends(tokens, k) /\ \A j \in 1..(k - 1) : ~Ends(tokens, j)
    IN /\ unit.ret.err = "ok"
       /\ unit.ret.block = [k \in 1..last |-> PieceOf(tokens[k])]
       /\ unit.ret.i = Len(Flatten(SubSeq(tokens, 1, last)))

\* C15 witness: of [19 02][19 02][02][04 0A 02][02][02] the first [02] was
\* absorbed and the second one ended the block
C15_Witness ==
  /\ unit.fn = "getText"
  /\ data = <<25, 2, 25, 2, 2, 4, 10, 2, 2, 2>>
  /\ unit.ret.block = <<Op(<<25, 2>>), Op(<<25, 2>>), Op(<<2>>), Op(<<4, 10, 2>>), Op(<<2>>)>>
  /\ unit.ret.i = 9

(***************************************************************************)
(* SpecSites: runs of the program on images whose instruction-operand site *)
(* holds one of several addresses under each addressing mode.              *)
(***************************************************************************)
\* the nine bytes of an instruction-operand site: LDA #lo; STA dp (0x85), or
\* LDA #lo; STA abs (0x8d), or LDA #lo; STA long (0x8f), then LDA #hi
AsmSite(address, mode) ==
  LET b == BytesOfAddress(address)
  IN IF mode = 133 THEN <<169, b[1], b[2], 133, 14, 169, b[3], b[4], 133>>
     ELSE IF mode = 141 THEN <<169, b[1], b[2], 141, 14, 0, 169, b[3], b[4]>>
     ELSE <<169, b[1], b[2], mode, 14, 0, 0, 169, b[3]>>

SitesText == <<113, 113, 2, 113, 2>>

InitSites ==
  /\ \E special \in {BlockAddress(0), BlockAddress(1)},
        address \in {BlockAddress(0), BlockAddress(1), BlockAddress(3), BlockAddress(4)},
        mode \in {133, 141, 143} :
       data = SitesText \o BytesOfAddress(special) \o AsmSite(address, mode)
                \o BytesOfAddress(BlockAddress(Len(SitesText) + 17)) \o <<113, 0>>
  /\ sections = <<<<0, Len(SitesText), 0>>>>
  /\ raw \in BOOLEAN
  /\ splitjumps = FALSE
  /\ StartLoad

SpecSites == InitSites /\ [][Next]_vars

\* the addressing-mode byte of an instruction-operand site
AsmMode(a) == data[a + 4]

\* C16: when the resolution step has finished, the address held at every
\* special site (SPECIAL_POINTERS) and at every instruction-operand site
\* (ASM_POINTERS, for the addressing modes 0x85 and 0x8d) is the start of a
\* block and has a page once the pages are assigned; a run whose
\* instruction-operand site has another addressing-mode byte does not get
\* past the labelling of the sites.
C16_SitesAreBlockStarts ==
  /\ pc \in {"assign", "sites", "process", "done"} =>
       /\ \A k \in 1..Len(SPECIAL_POINTERS) :
            /\ SpecialAddress(SPECIAL_POINTERS[k]) \in DOMAIN dialogue
            /\ pc # "assign" => SpecialAddress(SPECIAL_POINTERS[k]) \in DOMAIN dataFiles
       /\ \A k \in 1..Len(ASM_POINTERS) :
            AsmMode(ASM_POINTERS[k]) \in {133, 141} =>
              /\ AsmAddress(ASM_POINTERS[k]) \in DOMAIN dialogue
              /\ pc # "assign" => AsmAddress(ASM_POINTERS[k]) \in DOMAIN dataFiles
  /\ pc \in {"process", "done"} =>
       \A k \in 1..Len(ASM_POINTERS) : AsmMode(ASM_POINTERS[k]) \in {133, 141}

(***************************************************************************)
(* SpecTyped: runs of the program on images with a Normal section, a       *)
(* section of the coffee scene and a section of the staff roll, the        *)
(* special site holding an address inside one of them.  SpecTypedLive is   *)
(* loadDialogue on the same images with the fairness of a sequential       *)
(* program: a statement that can run does run.                             *)
(***************************************************************************)
NormalTexts == {<<113, 2>>, <<113, 113, 2>>, <<4, 10, 2, 2>>, <<31, 8, 0, 2>>}
CoffeeScenes == {<<113, 1, 5, 113, 0>>, <<9, 113, 0>>, <<113, 3, 0>>}
StaffRolls == {<<113, 114, 0, 255>>, <<3, 7, 113, 255>>}

InitTyped ==
  /\ \E n \in NormalTexts, c \in CoffeeScenes, s \in StaffRolls :
       LET text == n \o c \o s
       IN /\ \E k \in 1..(Len(text) - 1) :
               data = text \o Sites(BlockAddress(k), Len(text))
          /\ sections = <<<<0, Len(n), 0>>, <<Len(n), Len(n) + Len(c), 1>>,
                          <<Len(n) + Len(c), Len(text), 2>>>>
  /\ raw \in BOOLEAN
  /\ splitjumps = FALSE
  /\ StartLoad

SpecTyped == InitTyped /\ [][Next]_vars

\* the steps of loadDialogue
NextLoad ==
  \/ DecodeBlock
  \/ SeedPointers
  \/ ResolvePointer
  \/ AssignDataFiles
  \/ LabelSites

SpecTypedLive == InitTyped /\ [][NextLoad]_vars /\ WF_vars(NextLoad)

\* every call of getText that returned a block consumed at least one byte
ConsumedOne == \A a \in DOMAIN dialogue : dialogue[a].length >= 1

\* a round of the loop over a section moves the position forward, and stays
\* in the section only while the position is before its end
RegionProgress ==
  (pc = "decode" /\ pc' = "decode" /\ secIdx' = secIdx) =>
     (pos < pos' /\ pos' < sections[secIdx][2])

\* a round of the resolver that does not abort takes the first pending
\* address off the list for good, and that address is strictly greater than
\* the start of the block it splits
PointerProgress ==
  (pc = "resolve" /\ pc' # "aborted") =>
     /\ pending' = Tail(pending)
     /\ Head(pending) \notin Range(pending')
     /\ Head(pending) \in DOMAIN dialogue'
     /\ AddrLess(FindClosest(order, Head(pending)), Head(pending))

\* a call of getText ended the run
GetTextAborts ==
  pc \in {"decode", "resolve"} /\ pc' = "aborted" /\ err' # "AssertionError"

\* loadDialogue has returned, or the run was aborted
LoadEnded == pc \in {"process", "aborted"}

SampleAddresses == {Zero, <<192, 0>>, <<192, 5>>, <<193, 4660>>}

\* self.dataFiles: pages 0, 1 and 12
SampleFiles == (<<192, 0>> :> 0) @@ (<<192, 5>> :> 1) @@ (<<193, 4660>> :> 12)

\* the operators with one address
SingleOperators ==
  {prefix \o BytesOfAddress(a) :
     prefix \in {<<6, 1, 2>>, <<8>>, <<10>>, <<27, 2>>, <<27, 3>>, <<31, 99>>},
     a \in SampleAddresses}

\* the operators with a list of addresses: [09 n ..], [1F C0 n ..] with one or
\* two addresses, [1A 00 ..] and [1A 01 ..] with four addresses and one more byte
ListOperators ==
  {prefix \o <<1>> \o BytesOfAddress(a) :
     prefix \in {<<9>>, <<31, 192>>}, a \in SampleAddresses}
  \cup {prefix \o <<2>> \o BytesOfAddress(a) \o BytesOfAddress(b) :
          prefix \in {<<9>>, <<31, 192>>}, a \in SampleAddresses, b \in SampleAddresses}
  \cup {<<26, sub>> \o BytesOfAddress(a) \o BytesOfAddress(b) \o BytesOfAddress(Zero)
          \o BytesOfAddress(c) \o <<7>> :
          sub \in {0, 1}, a \in SampleAddresses, b \in SampleAddresses,
          c \in SampleAddresses}

InitLabel ==
  /\ ProgIdle /\ data = <<>> /\ splitjumps = FALSE
  /\ \E b \in SingleOperators \cup ListOperators, isRaw \in BOOLEAN :
       unit = [fn |-> "arg", match |-> Op(b), raw |-> isRaw]

CallReplaceWithLabel ==
  /\ unit.fn = "arg"
  /\ \E ret \in {replaceWithLabel(PatternMatch(PatternOf(unit.match), unit.match),
                                  SampleFiles, unit.raw)} :
       unit' = [fn |-> "replaceWithLabel", match |-> unit.match, raw |-> unit.raw,
                err |-> ret.err, text |-> TextOfAll(ret.out)]
  /\ UNCHANGED <<data, splitjumps, progVars>>

NextLabel == CallReplaceWithLabel

SpecLabel == InitLabel /\ [][NextLabel]_vars

\* C18: replaceWithLabel writes a single non-zero address A as
\* " goto(page.l_hexA) " (closing and reopening the quoted text) for the prefix
\* 0A and " call(page.l_hexA) " for the prefix 08 when raw is off, and as
\* [prefix {e(page.l_hexA)}] for every other operator with one address and in
\* raw mode; a zero address stays 00 00 00 00, without a page lookup, in both
\* forms; in the list forms 09, 1A 00/01 and 1F C0 every address is written
\* in its place, as many elements as before, and the last byte of the 1A form
\* is kept.
C18_LabelForms ==
  unit.fn = "replaceWithLabel" =>
    LET b == unit.match.b
        single == b[1] \in {6, 8, 10, 27} \/ (b[1] = 31 /\ b[2] = 99)
        plen == IF b[1] = 6 \/ (b[1] = 31 /\ b[2] = 192) THEN 3
                ELSE IF b[1] \in {8, 10} THEN 1 ELSE 2
        tlen == IF b[1] = 26 THEN 1 ELSE 0
        count == (Len(b) - plen - tlen) \div 4
        Address(g) == AddressOfBytes(SubSeq(b, plen + 4 * g - 3, plen + 4 * g))
        Lab(g) == <<"d", "a", "t", "a", "_">>
                    \o (IF SampleFiles[Address(g)] = 12 THEN <<"1", "2">>
                        ELSE <<"0", HexUpper[SampleFiles[Address(g)] + 1]>>)
                    \o <<".", "l", "_">>
                    \o (IF Address(g) = <<192, 0>> THEN <<"0", "x", "c", "0", "0", "0", "0", "0">>
                        ELSE IF Address(g) = <<192, 5>> THEN <<"0", "x", "c", "0", "0", "0", "0", "5">>
                        ELSE <<"0", "x", "c", "1", "1", "2", "3", "4">>)
        Element(g) == IF Address(g) = Zero
                      THEN <<" ", "0", "0", " ", "0", "0", " ", "0", "0", " ", "0", "0">>
                      ELSE <<" ", "{", "e", "(">> \o Lab(g) \o <<")", "}">>
        Prefix == JoinSpace([k \in 1..plen |-> FormatHex(b[k])])
        Bracket == <<"[">> \o Prefix \o Flatten([g \in 1..count |-> Element(g)])
                     \o HexText(SubSeq(b, Len(b) - tlen + 1, Len(b))) \o <<"]">>
    IN /\ unit.err = "ok"
       /\ unit.text =
            IF single /\ Address(1) # Zero /\ b[1] = 10 /\ ~unit.raw
            THEN <<"\"", " ", "goto", "(">> \o Lab(1) \o <<")", " ", "\"">>
            ELSE IF single /\ Address(1) # Zero /\ b[1] = 8 /\ ~unit.raw
            THEN <<"\"", " ", "call", "(">> \o Lab(1) \o <<")", " ", "\"">>
            ELSE Bracket

\* C18 witness: the match of [1A 01 ..] with the addresses 0xC00005, 0, 0,
\* 0xC11234 and the last byte 07 was rewritten
C18_Witness ==
  /\ unit.fn = "replaceWithLabel"
  /\ unit.match.b = <<26, 1>> \o BytesOfAddress(<<192, 5>>) \o BytesOfAddress(Zero)
                      \o BytesOfAddress(Zero) \o BytesOfAddress(<<193, 4660>>) \o <<7>>
  /\ unit.err = "ok"
  /\ unit.text = <<"[", "1", "A", " ", "0", "1", " ", "{", "e", "(", "d", "a", "t", "a", "_", "0", "1", ".", "l", "_", "0", "x", "c", "0", "0", "0", "0", "5", ")", "}">>
                   \o <<" ", "0", "0", " ", "0", "0", " ", "0", "0", " ", "0", "0", " ", "0", "0", " ", "0", "0", " ", "0", "0", " ", "0", "0">>
                   \o <<" ", "{", "e", "(", "d", "a", "t", "a", "_", "1", "2", ".", "l", "_", "0", "x", "c", "1", "1", "2", "3", "4", ")", "}", " ", "0", "7", "]">>

\* the text type of the section that holds the address (lines 361-366)
TypeOf(address) ==
  LET k == CHOOSE k \in 1..Len(sections) :
              sections[k][1] <= OffsetOf(address) /\ OffsetOf(address) < sections[k][2]
  IN sections[k][3]

\* C20: the two blocks of a split are decoded with the text type of the
\* region of the block that is split: the truncated copy and the new block
\* at the pending address are the coffee-scene (staff-roll) decodings of
\* their bytes when the block belongs to a coffee-scene (staff-roll) region.
C20_VariantKept ==
  split.valid =>
    LET t == TypeOf(split.lower)
    IN /\ split.cut = getText(data, OffsetOf(split.lower), OffsetOf(split.pointer),
                              t, splitjumps).block
       /\ split.fresh = getText(data, OffsetOf(split.pointer), None, t, splitjumps).block

====
